---- MODULE Spec2Model ----
(***************************************************************************)
(* The control plane of the USB gadget serial driver: the mode state        *)
(* machine (switch_mode / reset_mode under mode_switch_mutex), the control  *)
(* session of /dev/aoa_ctrl (aoa_open, aoa_release, aoa_read, aoa_ioctl,    *)
(* aoa_poll) and the event list (aoa_event_node_add) of                     *)
(* drivers/usb/gadget/serial.c, and the sysfs variant of the same driver    *)
(* (accessory_mode_store / gs_bind).                                        *)
(***************************************************************************)
EXTENDS Integers, Sequences, FiniteSets, TLC

(* ------------------------------------------------------------------ *)
(* Program constants                                                   *)
(* ------------------------------------------------------------------ *)

\* enum gadget_mode
MODE_NONE == 0
MODE_ACM == 1
MODE_AOA == 2
GadgetModes == {MODE_NONE, MODE_ACM, MODE_AOA}

\* enum aoa_event_type
AOA_EVENT_CONNECTED_ACM == 0
AOA_EVENT_DISCONNECTED_ACM == 1
AOA_EVENT_STRING_RECEIVED == 2
AOA_EVENT_START_REQUESTED == 3

\* enum aoa_string_type (the member used by the bounded inputs)
AOA_STRING_MODEL == 1

AOA_MAX_STR_SIZE == 256

\* sizeof(enum aoa_event_type), sizeof(enum aoa_string_type)
SizeofEnum == 4
\* sizeof(struct aoa_event): two enums and char str[AOA_MAX_STR_SIZE]
SizeofAoaEvent == SizeofEnum + SizeofEnum + AOA_MAX_STR_SIZE

\* ioctl codes: _IO('g', n) == ('g' << 8) | n, 'g' == 103
AOA_IOCTL_SWITCH_TO_AOA == 26369
AOA_IOCTL_SWITCH_TO_ACM == 26370
AOA_IOCTL_RESET == 26371

\* errno values
EINTR == 4
EFAULT == 14
EBUSY == 16
ENODEV == 19
EINVAL == 22
ENOTTY == 25

\* POLLIN | POLLRDNORM
POLLIN_RDNORM == 65

\* the null pointer, and the list poison written by list_del
NULL == 0
LIST_POISON == -1
\* a struct field kmalloc left uninitialised (never read by the code)
UNINIT == -2

(* ------------------------------------------------------------------ *)
(* Bounds of the model                                                 *)
(* ------------------------------------------------------------------ *)

\* how many event nodes kmalloc hands out in a run with one consumer task
MaxNodes == 3
\* how many event nodes kmalloc hands out in a run with concurrent tasks
MaxNodesShort == 1
\* how many control-session files may exist before open is no longer tried
MaxFiles == 2
\* how many event nodes kmalloc hands out in a run in which kmalloc may fail
MaxNodesDrop == 1
\* how many times kmalloc returns NULL to a push in such a run
MaxDrops == 1
\* how many event nodes kmalloc hands out in a run that follows the callers of
\* aoa_set_connected_acm
MaxNodesConn == 2

\* the user tasks that call into the control device / the sysfs attribute
Tasks == {"t1", "t2"}
NoTask == "none"

\* the kernel contexts (gadget callbacks) that call aoa_set_connected_acm
Callers == {"c1", "c2"}

\* the two builds of the driver found in the sources
Builds == {"aoa_ctrl", "sysfs"}

\* the bounded environments: all tasks with a short event log, a single
\* consumer task with a longer one, a single consumer task and a kmalloc
\* that may return NULL to a push, or no consumer and the callers of
\* aoa_set_connected_acm
Environments ==
    {[users |-> Tasks, nodes |-> MaxNodesShort, drops |-> 0, setters |-> {}],
     [users |-> {"t1"}, nodes |-> MaxNodes, drops |-> 0, setters |-> {}],
     [users |-> {"t1"}, nodes |-> MaxNodesDrop, drops |-> MaxDrops, setters |-> {}],
     [users |-> {}, nodes |-> MaxNodesConn, drops |-> 0, setters |-> Callers]}

\* inputs of the bounded environment
EventTypes == {AOA_EVENT_CONNECTED_ACM, AOA_EVENT_DISCONNECTED_ACM,
               AOA_EVENT_START_REQUESTED}
\* "Pixel" as bytes
StrBufs == {<<80, 105, 120, 101, 108>>}
StringTypes == {AOA_STRING_MODEL}
ReadLens == {SizeofAoaEvent, SizeofEnum}
IoctlCodes == {AOA_IOCTL_SWITCH_TO_AOA, AOA_IOCTL_SWITCH_TO_ACM,
               AOA_IOCTL_RESET, 0}
\* the errors usb_composite_probe / usb_composite_register may return
ProbeErrors == {-ENODEV}

VARIABLES
    build,                  \* which build of the driver is loaded
    users,                  \* the tasks that call into the driver in this run
    node_limit,             \* how many nodes kmalloc hands out in this run
    drop_limit,             \* how many times kmalloc returns NULL to a push in this run
    setters,                \* the contexts that call aoa_set_connected_acm in this run
    \* ---- serial.c: aoa_set_connected_acm
    aoa_connected_acm,      \* atomic_t aoa_connected_acm
    set_pc,                 \* position of each caller: "idle", or "add" after the xchg
    new_connected_acm,      \* aoa_set_connected_acm's argument, per caller
    set_nodes,              \* the nodes enqueued by aoa_set_connected_acm, in list order
    \* ---- serial.c: mode controller
    current_mode,           \* enum gadget_mode current_mode
    mode_switch_mutex,      \* the task holding the mutex, or NoTask
    registered,             \* transport: personality bound by usb_composite_probe
    last_target,            \* target of the request whose registration completed last
    \* ---- serial.c: control session
    aoa_ctrl_open,          \* atomic_t aoa_ctrl_open
    nfiles,                 \* open files of /dev/aoa_ctrl (open returned 0, not released)
    fd_closed,              \* the session's descriptor was closed while a call on the
                            \* file is still running: the release is pending
    \* ---- serial.c: event list
    heap,                   \* every node kmalloc handed out, in allocation order
    first_aoa_event_node,
    last_aoa_event_node,
    next_aoa_event_node,
    delivered,              \* records copied to the consumer since the cursor was last put on the head
    session_reads,          \* records copied to the consumer since the last successful open
    dropped,                \* records dropped by a push: the printk(KERN_ERR ...) lines so far
    wait_queue,             \* aoa_waitqueue: the readers asleep in aoa_read, head first
    \* ---- per task
    pc,                     \* position of each task
    new_mode,               \* switch_mode's argument
    caller,                 \* who called switch_mode / reset_mode: "open", "release", "ioctl"
    ret,                    \* the return value of the task's call
    calls,                  \* transport calls made by the task's current call
    \* ---- part_000: sysfs variant
    in_accessory_mode,
    can_change_mode,
    gadget_registered,
    gserial_initialized,
    sys_bound,              \* transport: configuration bound by gs_bind, or "none"
    sys_new_value,          \* accessory_mode_store's parsed new_value, per task
    sys_size,               \* accessory_mode_store's size argument, per task
    module_pc               \* position of insmod / rmmod in init() and cleanup()

ctrlVars == <<current_mode, mode_switch_mutex, registered, last_target,
              aoa_ctrl_open, nfiles, fd_closed>>
queueVars == <<heap, first_aoa_event_node, last_aoa_event_node,
               next_aoa_event_node, delivered, session_reads>>
taskVars == <<pc, new_mode, caller, ret, calls>>
sysVars == <<in_accessory_mode, can_change_mode, gadget_registered,
             gserial_initialized, sys_bound, sys_new_value, sys_size, module_pc>>
envVars == <<build, users, node_limit, drop_limit, setters>>
connVars == <<aoa_connected_acm, set_pc, new_connected_acm, set_nodes>>
vars == <<envVars, connVars, ctrlVars, queueVars, dropped, wait_queue, taskVars, sysVars>>

(* ------------------------------------------------------------------ *)
(* linux/list.h, on the heap of event nodes                            *)
(* A node is [type, str_type, str, next, prev, freed]; next and prev   *)
(* are the node's list_head, holding node numbers (list_entry).        *)
(* ------------------------------------------------------------------ *)

INIT_LIST_HEAD(h, n) ==
    [h EXCEPT ![n].next = n, ![n].prev = n]

\* list_add(new, head): insert new right after head
list_add(h, new, head) ==
    LET nxt == h[head].next
        h1 == [h EXCEPT ![nxt].prev = new]
        h2 == [h1 EXCEPT ![new].next = nxt]
        h3 == [h2 EXCEPT ![new].prev = head]
    IN [h3 EXCEPT ![head].next = new]

list_del(h, e) ==
    LET nxt == h[e].next
        prv == h[e].prev
        h1 == [h EXCEPT ![nxt].prev = prv]
        h2 == [h1 EXCEPT ![prv].next = nxt]
    IN [h2 EXCEPT ![e].next = LIST_POISON, ![e].prev = LIST_POISON]

\* kfree(node->str); kfree(node)
kfree(h, n) ==
    [h EXCEPT ![n].freed = TRUE]

\* list_for_each_entry_safe(node, temp, &head->list, list)
\*     { list_del(&node->list); kfree(node->str); kfree(node); }
\* the walk starts at head->list.next and stops when it is back at head
RECURSIVE FreeEntries(_, _, _)
FreeEntries(h, head, node) ==
    IF node = head \/ node \notin DOMAIN h
    THEN h
    ELSE LET temp == h[node].next
         IN FreeEntries(kfree(list_del(h, node), node), head, temp)

(* ------------------------------------------------------------------ *)
(* The event list                                                      *)
(* ------------------------------------------------------------------ *)

Min(a, b) == IF a < b THEN a ELSE b

\* strlen of a NUL-terminated byte sequence
strlen(s) ==
    IF \E i \in 1..Len(s) : s[i] = 0
    THEN (CHOOSE i \in 1..Len(s) : s[i] = 0 /\ \A j \in 1..(i - 1) : s[j] # 0) - 1
    ELSE Len(s)

\* aoa_event_node_add that appends a Connected like any other event
aoa_event_node_add_nocompact(h, first, last, nxt, type, str_type, str) ==
    LET new == Len(h) + 1
        h1 == Append(h, [type |-> type,
                         str_type |-> IF str_type # <<>> THEN str_type[1] ELSE UNINIT,
                         str |-> str,
                         next |-> UNINIT, prev |-> UNINIT, freed |-> FALSE])
        h3 == INIT_LIST_HEAD(h1, new)
        h4 == IF first = NULL THEN h3 ELSE list_add(h3, new, last)
    IN [heap |-> h4,
        first |-> IF first = NULL THEN new ELSE first,
        last |-> new,
        next |-> IF first = NULL \/ nxt = NULL THEN new ELSE nxt,
        rehead |-> (first = NULL)]

\* aoa_event_node_add that moves the tail only when the log gets a new head
aoa_event_node_add_stale_tail(h, first, last, nxt, type, str_type, str) ==
    LET new == Len(h) + 1
        h1 == Append(h, [type |-> type,
                         str_type |-> IF str_type # <<>> THEN str_type[1] ELSE UNINIT,
                         str |-> str,
                         next |-> UNINIT, prev |-> UNINIT, freed |-> FALSE])
        compact == first # NULL /\ type = AOA_EVENT_CONNECTED_ACM
        h2 == IF compact THEN FreeEntries(h1, first, h1[first].next) ELSE h1
        first2 == IF compact THEN NULL ELSE first
        next2 == IF compact THEN NULL ELSE nxt
        h3 == INIT_LIST_HEAD(h2, new)
        h4 == IF first2 = NULL THEN h3 ELSE list_add(h3, new, last)
        first3 == IF first2 = NULL THEN new ELSE first2
        next3 == IF first2 = NULL THEN new ELSE next2
        next4 == IF next3 = NULL THEN new ELSE next3
    IN [heap |-> h4, first |-> first3,
        last |-> IF first2 = NULL THEN new ELSE last, next |-> next4,
        rehead |-> (first2 = NULL)]

\* aoa_event_node_add whose compaction leaves a non-null cursor where it was
aoa_event_node_add_stale_cursor(h, first, last, nxt, type, str_type, str) ==
    LET new == Len(h) + 1
        h1 == Append(h, [type |-> type,
                         str_type |-> IF str_type # <<>> THEN str_type[1] ELSE UNINIT,
                         str |-> str,
                         next |-> UNINIT, prev |-> UNINIT, freed |-> FALSE])
        compact == first # NULL /\ type = AOA_EVENT_CONNECTED_ACM
        h2 == IF compact THEN FreeEntries(h1, first, h1[first].next) ELSE h1
        first2 == IF compact THEN NULL ELSE first
        h3 == INIT_LIST_HEAD(h2, new)
        h4 == IF first2 = NULL THEN h3 ELSE list_add(h3, new, last)
        first3 == IF first2 = NULL THEN new ELSE first2
        next4 == IF nxt = NULL THEN new ELSE nxt
    IN [heap |-> h4, first |-> first3, last |-> new, next |-> next4,
        rehead |-> (first2 = NULL)]

\* aoa_event_node_add that leaves an empty cursor empty when the log has a head
aoa_event_node_add_no_cursor(h, first, last, nxt, type, str_type, str) ==
    LET new == Len(h) + 1
        h1 == Append(h, [type |-> type,
                         str_type |-> IF str_type # <<>> THEN str_type[1] ELSE UNINIT,
                         str |-> str,
                         next |-> UNINIT, prev |-> UNINIT, freed |-> FALSE])
        compact == first # NULL /\ type = AOA_EVENT_CONNECTED_ACM
        h2 == IF compact THEN FreeEntries(h1, first, h1[first].next) ELSE h1
        first2 == IF compact THEN NULL ELSE first
        next2 == IF compact THEN NULL ELSE nxt
        h3 == INIT_LIST_HEAD(h2, new)
        h4 == IF first2 = NULL THEN h3 ELSE list_add(h3, new, last)
        first3 == IF first2 = NULL THEN new ELSE first2
        next3 == IF first2 = NULL THEN new ELSE next2
    IN [heap |-> h4, first |-> first3, last |-> new, next |-> next3,
        rehead |-> (first2 = NULL)]

\* aoa_event_node_add after a successful kmalloc of the node: the part
\* under aoa_waitqueue.lock.  str_type is <<>> for a NULL pointer and
\* <<t>> for a pointer to t; str is <<>> for NULL.
aoa_event_node_add(h, first, last, nxt, type, str_type, str) ==
    LET new == Len(h) + 1
        h1 == Append(h, [type |-> type,
                         str_type |-> IF str_type # <<>> THEN str_type[1] ELSE UNINIT,
                         str |-> str,
                         next |-> UNINIT, prev |-> UNINIT, freed |-> FALSE])
        compact == first # NULL /\ type = AOA_EVENT_CONNECTED_ACM
        h2 == IF compact THEN FreeEntries(h1, first, h1[first].next) ELSE h1
        first2 == IF compact THEN NULL ELSE first
        next2 == IF compact THEN NULL ELSE nxt
        h3 == INIT_LIST_HEAD(h2, new)
        h4 == IF first2 = NULL THEN h3 ELSE list_add(h3, new, last)
        first3 == IF first2 = NULL THEN new ELSE first2
        next3 == IF first2 = NULL THEN new ELSE next2
        next4 == IF next3 = NULL THEN new ELSE next3
    IN [heap |-> h4, first |-> first3, last |-> new, next |-> next4,
        rehead |-> (first2 = NULL)]

\* the string aoa_str_received_event_add copies out of strbuf
aoa_str_copy(strbuf, len) ==
    LET str_mem_len == Min(len + 1, AOA_MAX_STR_SIZE)
    IN SubSeq(strbuf, 1, str_mem_len - 1) \o <<0>>

\* what aoa_read copies to the user for the node at the cursor
aoa_read_event(h, n) ==
    IF h[n].str = <<>>
    THEN [ret |-> SizeofEnum,
          ev |-> [node |-> n, type |-> h[n].type, string |-> <<>>]]
    ELSE LET str_mem_len == strlen(h[n].str) + 1
         IN [ret |-> SizeofEnum + SizeofEnum + str_mem_len,
             ev |-> [node |-> n, type |-> h[n].type,
                     string |-> <<h[n].str_type,
                                  SubSeq(h[n].str, 1, str_mem_len)>>]]

\* aoa_read_advance without the test for the tail: the ring leads back to the head
aoa_read_advance_wrap(h, last, nxt) ==
    h[nxt].next

\* the cursor after a delivered read
aoa_read_advance(h, last, nxt) ==
    IF last = nxt THEN NULL ELSE h[nxt].next

(* ------------------------------------------------------------------ *)
(* Initial state: the module is loaded, nothing is registered          *)
(* ------------------------------------------------------------------ *)

Init ==
    /\ build \in Builds
    /\ \E e \in Environments :
           /\ users = e.users
           /\ node_limit = IF build = "aoa_ctrl" THEN e.nodes ELSE 0
           /\ drop_limit = IF build = "aoa_ctrl" THEN e.drops ELSE 0
           /\ setters = IF build = "aoa_ctrl" THEN e.setters ELSE {}
    /\ aoa_connected_acm = FALSE
    /\ set_pc = [c \in Callers |-> "idle"]
    /\ new_connected_acm = [c \in Callers |-> FALSE]
    /\ set_nodes = <<>>
    /\ current_mode = MODE_NONE
    /\ mode_switch_mutex = NoTask
    /\ registered = MODE_NONE
    /\ last_target = MODE_NONE
    /\ aoa_ctrl_open = FALSE
    /\ nfiles = 0
    /\ fd_closed = FALSE
    /\ heap = <<>>
    /\ first_aoa_event_node = NULL
    /\ last_aoa_event_node = NULL
    /\ next_aoa_event_node = NULL
    /\ delivered = <<>>
    /\ session_reads = <<>>
    /\ dropped = 0
    /\ wait_queue = <<>>
    /\ pc = [t \in Tasks |-> "idle"]
    /\ new_mode = [t \in Tasks |-> MODE_NONE]
    /\ caller = [t \in Tasks |-> "none"]
    /\ ret = [t \in Tasks |-> 0]
    /\ calls = [t \in Tasks |-> <<>>]
    \* part_000: the ATOMIC_INIT values; init() has created the attribute files
    \* and is about to call usb_composite_register
    /\ in_accessory_mode = 0
    /\ can_change_mode = 0
    /\ gadget_registered = 0
    /\ gserial_initialized = 0
    /\ sys_bound = "none"
    /\ sys_new_value = [t \in Tasks |-> FALSE]
    /\ sys_size = [t \in Tasks |-> 0]
    /\ module_pc = IF build = "sysfs" THEN "init_register" ELSE "none"

(* ------------------------------------------------------------------ *)
(* Producers: aoa_event_add and aoa_str_received_event_add             *)
(* (interrupt context; the list is changed under aoa_waitqueue.lock)   *)
(* ------------------------------------------------------------------ *)

\* wake_up_locked(&aoa_waitqueue): the readers wait exclusively, so the first
\* sleeper of the queue is woken and leaves the queue (autoremove_wake_function)
wake_up_locked(q) == IF q = <<>> THEN q ELSE Tail(q)

\* the effect of a successful aoa_event_node_add on the list variables and on
\* the wait queue
EnqueueNode(type, str_type, str) ==
    LET r == aoa_event_node_add(heap, first_aoa_event_node, last_aoa_event_node,
                                next_aoa_event_node, type, str_type, str)
    IN /\ heap' = r.heap
       /\ first_aoa_event_node' = r.first
       /\ last_aoa_event_node' = r.last
       /\ next_aoa_event_node' = r.next
       /\ delivered' = IF r.rehead THEN <<>> ELSE delivered
       /\ wait_queue' = wake_up_locked(wait_queue)
       /\ UNCHANGED session_reads

\* a push that wakes the reader although it enqueued nothing
DropRecord_phantom ==
    /\ dropped < drop_limit
    /\ dropped' = dropped + 1
    /\ next_aoa_event_node' = IF next_aoa_event_node = NULL
                              THEN last_aoa_event_node ELSE next_aoa_event_node
    /\ wait_queue' = wake_up_locked(wait_queue)
    /\ UNCHANGED <<heap, first_aoa_event_node, last_aoa_event_node,
                   delivered, session_reads>>

\* a push whose kmalloc(GFP_ATOMIC) returned NULL: the printk, and the return
DropRecord ==
    /\ dropped < drop_limit
    /\ dropped' = dropped + 1
    /\ UNCHANGED <<queueVars, wait_queue>>

\* aoa_event_add(type); the node is enqueued unless kmalloc returns NULL
aoa_event_add(type) ==
    /\ build = "aoa_ctrl"
    /\ \/ /\ Len(heap) < node_limit
          /\ EnqueueNode(type, <<>>, <<>>)
          /\ UNCHANGED dropped
       \/ DropRecord
    /\ UNCHANGED <<envVars, connVars, ctrlVars, taskVars, sysVars>>

\* aoa_str_received_event_add(type, strbuf, len); the node is enqueued unless
\* the kmalloc of the string or the kmalloc of the node returns NULL (the
\* string is then freed again)
aoa_str_received_event_add(type, strbuf, len) ==
    /\ build = "aoa_ctrl"
    /\ \/ /\ Len(heap) < node_limit
          /\ EnqueueNode(AOA_EVENT_STRING_RECEIVED, <<type>>, aoa_str_copy(strbuf, len))
          /\ UNCHANGED dropped
       \/ DropRecord
    /\ UNCHANGED <<envVars, connVars, ctrlVars, taskVars, sysVars>>

(* ------------------------------------------------------------------ *)
(* switch_mode and reset_mode, one step per statement group            *)
(* ------------------------------------------------------------------ *)

\* a task enters a call: its locals are fresh
Enter(t, where, who, mode) ==
    /\ pc' = [pc EXCEPT ![t] = where]
    /\ caller' = [caller EXCEPT ![t] = who]
    /\ new_mode' = [new_mode EXCEPT ![t] = mode]
    /\ ret' = [ret EXCEPT ![t] = 0]
    /\ calls' = [calls EXCEPT ![t] = <<>>]

\* a task returns v to user space without having entered a multi-step call
ReturnNow(t, v) ==
    /\ pc' = [pc EXCEPT ![t] = "idle"]
    /\ caller' = [caller EXCEPT ![t] = "none"]
    /\ new_mode' = [new_mode EXCEPT ![t] = MODE_NONE]
    /\ ret' = [ret EXCEPT ![t] = v]
    /\ calls' = [calls EXCEPT ![t] = <<>>]

\* the bind callback usb_composite_probe is given for a personality; a
\* transport call is recorded as "unregister" or as the binder probed with
Binder(mode) == IF mode = MODE_ACM THEN "gs_bind_acm" ELSE "gs_bind_aoa"

\* a lock that is taken without waiting for its holder
mutex_lock_nowait(t) ==
    /\ mode_switch_mutex' = t

\* mutex_lock(&mode_switch_mutex): waits while another task holds it
mutex_lock(t) ==
    /\ mode_switch_mutex = NoTask
    /\ mode_switch_mutex' = t

\* switch_mode: mutex_lock
SmLock(t) ==
    /\ pc[t] = "sm_lock"
    /\ mutex_lock(t)
    /\ pc' = [pc EXCEPT ![t] = "sm_check"]
    /\ UNCHANGED <<envVars, connVars, dropped, wait_queue, fd_closed, current_mode, registered, last_target, aoa_ctrl_open,
                   nfiles, queueVars, new_mode, caller, ret, calls, sysVars>>

\* switch_mode that goes to the probe without tearing down the current personality
SmCheck_no_unregister(t) ==
    /\ pc[t] = "sm_check"
    /\ IF current_mode = new_mode[t]
       THEN /\ ret' = [ret EXCEPT ![t] = 0]
            /\ pc' = [pc EXCEPT ![t] = "sm_done"]
       ELSE /\ pc' = [pc EXCEPT ![t] = "sm_switch"]
            /\ UNCHANGED ret
    /\ UNCHANGED <<envVars, connVars, dropped, wait_queue, fd_closed, current_mode, mode_switch_mutex, registered, last_target,
                   aoa_ctrl_open, nfiles, queueVars, new_mode, caller, calls, sysVars>>

\* switch_mode without the current_mode == new_mode test
SmCheck_notest(t) ==
    /\ pc[t] = "sm_check"
    /\ IF current_mode # MODE_NONE
       THEN /\ registered' = MODE_NONE
            /\ calls' = [calls EXCEPT ![t] = Append(@, "unregister")]
       ELSE UNCHANGED <<registered, calls>>
    /\ pc' = [pc EXCEPT ![t] = "sm_switch"]
    /\ UNCHANGED <<envVars, connVars, dropped, wait_queue, fd_closed, current_mode, mode_switch_mutex, last_target,
                   aoa_ctrl_open, nfiles, queueVars, new_mode, caller, ret, sysVars>>

\* switch_mode: the current_mode == new_mode test, then the unregister
SmCheck(t) ==
    /\ pc[t] = "sm_check"
    /\ IF current_mode = new_mode[t]
       THEN /\ ret' = [ret EXCEPT ![t] = 0]
            /\ pc' = [pc EXCEPT ![t] = "sm_done"]
            /\ UNCHANGED <<registered, calls>>
       ELSE IF current_mode # MODE_NONE
            THEN /\ registered' = MODE_NONE
                 /\ calls' = [calls EXCEPT ![t] = Append(@, "unregister")]
                 /\ pc' = [pc EXCEPT ![t] = "sm_switch"]
                 /\ UNCHANGED ret
            ELSE /\ pc' = [pc EXCEPT ![t] = "sm_switch"]
                 /\ UNCHANGED <<registered, calls, ret>>
    /\ UNCHANGED <<envVars, connVars, dropped, wait_queue, fd_closed, current_mode, mode_switch_mutex, last_target,
                   aoa_ctrl_open, nfiles, queueVars, new_mode, caller, sysVars>>

\* switch_mode whose MODE_NONE case returns without assigning current_mode
SmSwitch_none_keeps_mode(t, status) ==
    /\ pc[t] = "sm_switch"
    /\ IF new_mode[t] = MODE_NONE
       THEN /\ status = 0
            /\ last_target' = MODE_NONE
            /\ ret' = [ret EXCEPT ![t] = 0]
            /\ pc' = [pc EXCEPT ![t] = "sm_done"]
            /\ UNCHANGED <<current_mode, registered, calls>>
       ELSE /\ calls' = [calls EXCEPT ![t] = Append(@, Binder(new_mode[t]))]
            /\ ret' = [ret EXCEPT ![t] = status]
            /\ IF status # 0
               THEN /\ pc' = [pc EXCEPT ![t] = "sm_done"]
                    /\ UNCHANGED <<registered, last_target>>
               ELSE /\ registered' = new_mode[t]
                    /\ last_target' = new_mode[t]
                    /\ pc' = [pc EXCEPT ![t] = "sm_set"]
            /\ UNCHANGED current_mode
    /\ UNCHANGED <<envVars, connVars, dropped, wait_queue, fd_closed, mode_switch_mutex, aoa_ctrl_open, nfiles,
                   queueVars, new_mode, caller, sysVars>>

\* switch_mode: switch (new_mode); status is what usb_composite_probe returns.
\* registered is the transport's side: the personality whose bind succeeded.
SmSwitch(t, status) ==
    /\ pc[t] = "sm_switch"
    /\ IF new_mode[t] = MODE_NONE
       THEN /\ status = 0
            /\ current_mode' = MODE_NONE
            /\ last_target' = MODE_NONE
            /\ ret' = [ret EXCEPT ![t] = 0]
            /\ pc' = [pc EXCEPT ![t] = "sm_done"]
            /\ UNCHANGED <<registered, calls>>
       ELSE /\ calls' = [calls EXCEPT ![t] = Append(@, Binder(new_mode[t]))]
            /\ ret' = [ret EXCEPT ![t] = status]
            /\ IF status # 0
               THEN /\ pc' = [pc EXCEPT ![t] = "sm_done"]
                    /\ UNCHANGED <<registered, last_target>>
               ELSE /\ registered' = new_mode[t]
                    /\ last_target' = new_mode[t]
                    /\ pc' = [pc EXCEPT ![t] = "sm_set"]
            /\ UNCHANGED current_mode
    /\ UNCHANGED <<envVars, connVars, dropped, wait_queue, fd_closed, mode_switch_mutex, aoa_ctrl_open, nfiles,
                   queueVars, new_mode, caller, sysVars>>

\* switch_mode: current_mode = new_mode
SmSet(t) ==
    /\ pc[t] = "sm_set"
    /\ current_mode' = new_mode[t]
    /\ pc' = [pc EXCEPT ![t] = "sm_done"]
    /\ UNCHANGED <<envVars, connVars, dropped, wait_queue, fd_closed, mode_switch_mutex, registered, last_target,
                   aoa_ctrl_open, nfiles, queueVars, new_mode, caller, ret,
                   calls, sysVars>>

\* switch_mode that returns to its caller with the mutex still held
SmDone_no_unlock(t) ==
    /\ pc[t] = "sm_done"
    /\ UNCHANGED mode_switch_mutex
    /\ pc' = [pc EXCEPT ![t] =
                 CASE caller[t] = "open" -> "open_ret"
                   [] caller[t] = "release" -> "release_clear"
                   [] OTHER -> "idle"]
    /\ caller' = [caller EXCEPT ![t] = IF @ \in {"open", "release"} THEN @ ELSE "none"]
    /\ new_mode' = [new_mode EXCEPT ![t] = MODE_NONE]
    /\ UNCHANGED <<envVars, connVars, dropped, wait_queue, fd_closed, current_mode, registered, last_target, aoa_ctrl_open,
                   nfiles, queueVars, ret, calls, sysVars>>

\* switch_mode, done: mutex_unlock and return to the caller, its argument gone
\* with its frame.  aoa_open goes on with the cursor reset or the roll back,
\* aoa_release with clearing the open flag, aoa_ioctl returns ret to the user.
SmDone(t) ==
    /\ pc[t] = "sm_done"
    /\ mode_switch_mutex' = NoTask
    /\ pc' = [pc EXCEPT ![t] =
                 CASE caller[t] = "open" -> "open_ret"
                   [] caller[t] = "release" -> "release_clear"
                   [] OTHER -> "idle"]
    /\ caller' = [caller EXCEPT ![t] = IF @ \in {"open", "release"} THEN @ ELSE "none"]
    /\ new_mode' = [new_mode EXCEPT ![t] = MODE_NONE]
    /\ UNCHANGED <<envVars, connVars, dropped, wait_queue, fd_closed, current_mode, registered, last_target, aoa_ctrl_open,
                   nfiles, queueVars, ret, calls, sysVars>>

\* reset_mode: mutex_lock
RmLock(t) ==
    /\ pc[t] = "rm_lock"
    /\ mutex_lock(t)
    /\ pc' = [pc EXCEPT ![t] = "rm_check"]
    /\ UNCHANGED <<envVars, connVars, dropped, wait_queue, fd_closed, current_mode, registered, last_target, aoa_ctrl_open,
                   nfiles, queueVars, new_mode, caller, ret, calls, sysVars>>

\* reset_mode: the MODE_NONE test, then the unregister
RmCheck(t) ==
    /\ pc[t] = "rm_check"
    /\ IF current_mode = MODE_NONE
       THEN /\ ret' = [ret EXCEPT ![t] = 0]
            /\ pc' = [pc EXCEPT ![t] = "rm_done"]
            /\ UNCHANGED <<registered, calls>>
       ELSE /\ registered' = MODE_NONE
            /\ calls' = [calls EXCEPT ![t] = Append(@, "unregister")]
            /\ pc' = [pc EXCEPT ![t] = "rm_probe"]
            /\ UNCHANGED ret
    /\ UNCHANGED <<envVars, connVars, dropped, wait_queue, fd_closed, current_mode, mode_switch_mutex, last_target,
                   aoa_ctrl_open, nfiles, queueVars, new_mode, caller, sysVars>>

\* reset_mode that falls back to MODE_NONE when its probe fails
RmProbe_clears_mode(t, status) ==
    /\ pc[t] = "rm_probe"
    /\ calls' = [calls EXCEPT ![t] = Append(@, Binder(current_mode))]
    /\ ret' = [ret EXCEPT ![t] = status]
    /\ IF status # 0
       THEN /\ current_mode' = MODE_NONE
            /\ UNCHANGED <<registered, last_target>>
       ELSE /\ registered' = IF current_mode = MODE_ACM THEN MODE_ACM ELSE MODE_AOA
            /\ last_target' = current_mode
            /\ UNCHANGED current_mode
    /\ pc' = [pc EXCEPT ![t] = "rm_done"]
    /\ UNCHANGED <<envVars, connVars, dropped, wait_queue, fd_closed, mode_switch_mutex, aoa_ctrl_open, nfiles,
                   queueVars, new_mode, caller, sysVars>>

\* reset_mode: usb_composite_probe of the binder current_mode selects
RmProbe(t, status) ==
    /\ pc[t] = "rm_probe"
    /\ calls' = [calls EXCEPT ![t] = Append(@, Binder(current_mode))]
    /\ ret' = [ret EXCEPT ![t] = status]
    /\ IF status # 0
       THEN UNCHANGED <<registered, last_target>>
       ELSE /\ registered' = IF current_mode = MODE_ACM THEN MODE_ACM ELSE MODE_AOA
            /\ last_target' = current_mode
    /\ pc' = [pc EXCEPT ![t] = "rm_done"]
    /\ UNCHANGED <<envVars, connVars, dropped, wait_queue, fd_closed, current_mode, mode_switch_mutex, aoa_ctrl_open, nfiles,
                   queueVars, new_mode, caller, sysVars>>

\* reset_mode, done: mutex_unlock and return to aoa_ioctl, which returns ret
RmDone(t) ==
    /\ pc[t] = "rm_done"
    /\ mode_switch_mutex' = NoTask
    /\ pc' = [pc EXCEPT ![t] = "idle"]
    /\ caller' = [caller EXCEPT ![t] = "none"]
    /\ UNCHANGED <<envVars, connVars, dropped, wait_queue, fd_closed, current_mode, registered, last_target, aoa_ctrl_open,
                   nfiles, queueVars, new_mode, ret, calls, sysVars>>

(* ------------------------------------------------------------------ *)
(* The control session: file operations of /dev/aoa_ctrl               *)
(* ------------------------------------------------------------------ *)

\* atomic_xchg(&v, new): stores new, returns the old value
atomic_xchg(v, new) == [old |-> v, val |-> new]

\* a task is inside read or ioctl on the open file; the VFS calls release
\* only when the last user of the file is gone
InFileOp(u) == pc[u] # "idle" /\ caller[u] \in {"ioctl", "read"}

\* aoa_open that sets the open flag without testing its old value
aoa_open_untested(t) ==
    /\ build = "aoa_ctrl"
    /\ t \in users
    /\ pc[t] = "idle"
    /\ nfiles < MaxFiles
    /\ aoa_ctrl_open' = TRUE
    /\ Enter(t, "sm_lock", "open", MODE_ACM)
    /\ UNCHANGED <<envVars, connVars, dropped, wait_queue, fd_closed, current_mode, mode_switch_mutex, registered, last_target,
                   nfiles, queueVars, sysVars>>

\* aoa_open up to its call of switch_mode(MODE_ACM)
aoa_open(t) ==
    /\ build = "aoa_ctrl"
    /\ t \in users
    /\ pc[t] = "idle"
    /\ nfiles < MaxFiles
    /\ LET x == atomic_xchg(aoa_ctrl_open, TRUE)
       IN /\ aoa_ctrl_open' = x.val
          /\ IF x.old
             THEN ReturnNow(t, -EBUSY)
             ELSE Enter(t, "sm_lock", "open", MODE_ACM)
    /\ UNCHANGED <<envVars, connVars, dropped, wait_queue, fd_closed, current_mode, mode_switch_mutex, registered, last_target, nfiles,
                   queueVars, sysVars>>

\* aoa_open that keeps the open flag set when switch_mode failed
OpenRet_no_rollback(t) ==
    /\ pc[t] = "open_ret"
    /\ IF ret[t] = 0
       THEN /\ next_aoa_event_node' = first_aoa_event_node
            /\ delivered' = <<>>
            /\ session_reads' = <<>>
            /\ nfiles' = nfiles + 1
       ELSE UNCHANGED <<next_aoa_event_node, delivered, session_reads, nfiles>>
    /\ pc' = [pc EXCEPT ![t] = "idle"]
    /\ caller' = [caller EXCEPT ![t] = "none"]
    /\ UNCHANGED <<envVars, connVars, dropped, wait_queue, fd_closed, current_mode, mode_switch_mutex, registered, last_target,
                   aoa_ctrl_open, heap, first_aoa_event_node, last_aoa_event_node,
                   new_mode, ret, calls, sysVars>>

\* aoa_open that leaves the cursor where the last session left it
OpenRet_keep_cursor(t) ==
    /\ pc[t] = "open_ret"
    /\ IF ret[t] = 0
       THEN /\ delivered' = <<>>
            /\ session_reads' = <<>>
            /\ nfiles' = nfiles + 1
            /\ UNCHANGED <<aoa_ctrl_open, next_aoa_event_node>>
       ELSE /\ aoa_ctrl_open' = FALSE
            /\ UNCHANGED <<next_aoa_event_node, delivered, session_reads, nfiles>>
    /\ pc' = [pc EXCEPT ![t] = "idle"]
    /\ caller' = [caller EXCEPT ![t] = "none"]
    /\ UNCHANGED <<envVars, connVars, dropped, wait_queue, fd_closed, current_mode, mode_switch_mutex, registered, last_target,
                   heap, first_aoa_event_node, last_aoa_event_node,
                   new_mode, ret, calls, sysVars>>

\* aoa_open after switch_mode returned: cursor reset, or roll back of the flag
OpenRet(t) ==
    /\ pc[t] = "open_ret"
    /\ IF ret[t] = 0
       THEN /\ next_aoa_event_node' = first_aoa_event_node
            /\ delivered' = <<>>
            /\ session_reads' = <<>>
            /\ nfiles' = nfiles + 1
            /\ UNCHANGED aoa_ctrl_open
       ELSE /\ aoa_ctrl_open' = FALSE
            /\ UNCHANGED <<next_aoa_event_node, delivered, session_reads, nfiles>>
    /\ pc' = [pc EXCEPT ![t] = "idle"]
    /\ caller' = [caller EXCEPT ![t] = "none"]
    /\ UNCHANGED <<envVars, connVars, dropped, wait_queue, fd_closed, current_mode, mode_switch_mutex, registered, last_target,
                   heap, first_aoa_event_node, last_aoa_event_node,
                   new_mode, ret, calls, sysVars>>

\* close() of the session's descriptor by one task while another is inside
\* read or ioctl on the file: the descriptor is gone, no new call can start,
\* and .release is not called before the running call has returned
sys_close(t) ==
    /\ build = "aoa_ctrl"
    /\ t \in users
    /\ pc[t] = "idle"
    /\ nfiles > 0 /\ ~fd_closed
    /\ \E u \in Tasks : InFileOp(u)
    /\ fd_closed' = TRUE
    /\ UNCHANGED <<envVars, connVars, dropped, wait_queue, current_mode, mode_switch_mutex, registered,
                   last_target, aoa_ctrl_open, nfiles, queueVars, taskVars, sysVars>>

\* aoa_release that clears the open flag before it calls switch_mode
aoa_release_clear_first(t) ==
    /\ build = "aoa_ctrl"
    /\ t \in users
    /\ pc[t] = "idle"
    /\ nfiles > 0
    /\ \A u \in Tasks : ~InFileOp(u)
    /\ nfiles' = nfiles - 1
    /\ fd_closed' = FALSE
    /\ aoa_ctrl_open' = FALSE
    /\ Enter(t, "sm_lock", "release", MODE_NONE)
    /\ UNCHANGED <<envVars, connVars, dropped, wait_queue, current_mode, mode_switch_mutex, registered, last_target,
                   queueVars, sysVars>>

\* aoa_release up to its call of switch_mode(MODE_NONE)
aoa_release(t) ==
    /\ build = "aoa_ctrl"
    /\ t \in users
    /\ pc[t] = "idle"
    /\ nfiles > 0
    /\ \A u \in Tasks : ~InFileOp(u)
    /\ nfiles' = nfiles - 1
    /\ fd_closed' = FALSE
    /\ Enter(t, "sm_lock", "release", MODE_NONE)
    /\ UNCHANGED <<envVars, connVars, dropped, wait_queue, current_mode, mode_switch_mutex, registered, last_target,
                   aoa_ctrl_open, queueVars, sysVars>>

\* aoa_release after switch_mode returned: atomic_set(&aoa_ctrl_open, false)
ReleaseClear(t) ==
    /\ pc[t] = "release_clear"
    /\ aoa_ctrl_open' = FALSE
    /\ pc' = [pc EXCEPT ![t] = "idle"]
    /\ caller' = [caller EXCEPT ![t] = "none"]
    /\ ret' = [ret EXCEPT ![t] = 0]
    /\ UNCHANGED <<envVars, connVars, dropped, wait_queue, fd_closed, current_mode, mode_switch_mutex, registered, last_target, nfiles,
                   queueVars, new_mode, calls, sysVars>>

\* aoa_ioctl
aoa_ioctl(t, code) ==
    /\ build = "aoa_ctrl"
    /\ t \in users
    /\ pc[t] = "idle"
    /\ nfiles > 0 /\ ~fd_closed
    /\ CASE code = AOA_IOCTL_SWITCH_TO_AOA -> Enter(t, "sm_lock", "ioctl", MODE_AOA)
         [] code = AOA_IOCTL_SWITCH_TO_ACM -> Enter(t, "sm_lock", "ioctl", MODE_ACM)
         [] code = AOA_IOCTL_RESET -> Enter(t, "rm_lock", "ioctl", MODE_NONE)
         [] OTHER -> ReturnNow(t, -ENOTTY)
    /\ UNCHANGED <<envVars, connVars, dropped, wait_queue, ctrlVars, queueVars, sysVars>>

\* aoa_read that moves the cursor before the copy to the user can fail
Deliver_fault_advances(t) ==
    LET e == aoa_read_event(heap, next_aoa_event_node)
    IN \/ /\ delivered' = Append(delivered, e.ev)
          /\ session_reads' = Append(session_reads, e.ev)
          /\ next_aoa_event_node' =
                 aoa_read_advance(heap, last_aoa_event_node, next_aoa_event_node)
          /\ ReturnNow(t, e.ret)
       \/ /\ ReturnNow(t, -EFAULT)
          /\ next_aoa_event_node' =
                 aoa_read_advance(heap, last_aoa_event_node, next_aoa_event_node)
          /\ UNCHANGED <<delivered, session_reads>>

\* aoa_read from the copy to the user on; copy_to_user may fail
Deliver(t) ==
    LET e == aoa_read_event(heap, next_aoa_event_node)
    IN \/ /\ delivered' = Append(delivered, e.ev)
          /\ session_reads' = Append(session_reads, e.ev)
          /\ next_aoa_event_node' =
                 aoa_read_advance(heap, last_aoa_event_node, next_aoa_event_node)
          /\ ReturnNow(t, e.ret)
       \/ /\ ReturnNow(t, -EFAULT)
          /\ UNCHANGED <<delivered, session_reads, next_aoa_event_node>>

\* the readers of the wait queue
Sleepers == {wait_queue[i] : i \in 1..Len(wait_queue)}

\* the wait queue without t
Unqueue(t) == SelectSeq(wait_queue, LAMBDA u : u # t)

\* aoa_read without the test of buf and len
aoa_read_unchecked(t, buf_null, len) ==
    /\ build = "aoa_ctrl"
    /\ t \in users
    /\ pc[t] = "idle"
    /\ nfiles > 0 /\ ~fd_closed
    /\ IF next_aoa_event_node # NULL
       THEN Deliver(t) /\ UNCHANGED wait_queue
       ELSE /\ \/ ReturnNow(t, -EINTR) /\ UNCHANGED wait_queue
               \/ /\ Enter(t, "read_wait", "read", MODE_NONE)
                  /\ wait_queue' = Append(wait_queue, t)
            /\ UNCHANGED <<delivered, session_reads, next_aoa_event_node>>
    /\ UNCHANGED <<envVars, connVars, dropped, ctrlVars, heap, first_aoa_event_node,
                   last_aoa_event_node, sysVars>>

\* aoa_read up to the wait: buf_null is buf == NULL; with an empty cursor the
\* task returns when a signal is pending, and otherwise puts itself at the
\* tail of the wait queue and sleeps
aoa_read(t, buf_null, len) ==
    /\ build = "aoa_ctrl"
    /\ t \in users
    /\ pc[t] = "idle"
    /\ nfiles > 0 /\ ~fd_closed
    /\ IF buf_null \/ len # SizeofAoaEvent
       THEN /\ ReturnNow(t, -EINVAL)
            /\ UNCHANGED <<delivered, session_reads, next_aoa_event_node, wait_queue>>
       ELSE IF next_aoa_event_node # NULL
            THEN Deliver(t) /\ UNCHANGED wait_queue
            ELSE /\ \/ ReturnNow(t, -EINTR) /\ UNCHANGED wait_queue
                    \/ /\ Enter(t, "read_wait", "read", MODE_NONE)
                       /\ wait_queue' = Append(wait_queue, t)
                 /\ UNCHANGED <<delivered, session_reads, next_aoa_event_node>>
    /\ UNCHANGED <<envVars, connVars, dropped, ctrlVars, heap, first_aoa_event_node,
                   last_aoa_event_node, sysVars>>

\* a signal is sent to a task that is in the wait of aoa_read: the task is made
\* runnable with the signal pending.  (It stays on the kernel's list until it
\* runs, but a wake_up passes over a task that is not asleep, so wait_queue
\* holds the sleepers only.)
ReadSignal(t) ==
    /\ pc[t] = "read_wait"
    /\ pc' = [pc EXCEPT ![t] = "read_signalled"]
    /\ wait_queue' = Unqueue(t)
    /\ UNCHANGED <<envVars, connVars, dropped, ctrlVars, queueVars, new_mode, caller,
                   ret, calls, sysVars>>

\* the task is in the wait of aoa_read, asleep or woken
InWait(t) == pc[t] \in {"read_wait", "read_signalled"}

\* the task is in the wait of aoa_read and is not asleep: a push or a signal
\* has woken it
Woken(t) == InWait(t) /\ t \notin Sleepers

\* aoa_read run again in wait_event_interruptible_exclusive_locked_irq after a
\* wake-up: the condition is looked at first; when it does not hold the loop
\* puts the task at the tail of the queue again, returns when a signal is
\* pending and sleeps otherwise
ReadWake(t) ==
    /\ Woken(t)
    /\ IF next_aoa_event_node # NULL
       THEN Deliver(t) /\ UNCHANGED wait_queue
       ELSE IF pc[t] = "read_signalled"
            THEN /\ ReturnNow(t, -EINTR)
                 /\ UNCHANGED <<delivered, session_reads, next_aoa_event_node,
                                wait_queue>>
            ELSE /\ wait_queue' = Append(wait_queue, t)
                 /\ UNCHANGED <<delivered, session_reads, next_aoa_event_node,
                                taskVars>>
    /\ UNCHANGED <<envVars, connVars, dropped, ctrlVars, heap, first_aoa_event_node,
                   last_aoa_event_node, sysVars>>

\* aoa_poll
aoa_poll(t) ==
    /\ build = "aoa_ctrl"
    /\ t \in users
    /\ pc[t] = "idle"
    /\ nfiles > 0 /\ ~fd_closed
    /\ ReturnNow(t, IF next_aoa_event_node = NULL THEN 0 ELSE POLLIN_RDNORM)
    /\ UNCHANGED <<envVars, connVars, dropped, wait_queue, ctrlVars, queueVars, sysVars>>

(* ------------------------------------------------------------------ *)
(* The sysfs variant: accessory_mode_store and gs_bind                 *)
(* ------------------------------------------------------------------ *)

\* what the user writes to the attribute: "", "1", "0", "x", "1\n", "0\n"
SysfsBufs == {<<>>, <<49>>, <<48>>, <<120>>, <<49, 10>>, <<48, 10>>}
\* where gs_bind may fail
BindFailures == {"none", "setup", "string", "config"}

\* gs_bind: the values it leaves in can_change_mode and gserial_initialized,
\* the configuration it adds and its status
gs_bind(in_acc, initialized, fail_at) ==
    IF initialized = 0 /\ fail_at = "setup"
    THEN [status |-> -ENODEV, can_change_mode |-> 0,
          gserial_initialized |-> initialized, bound |-> "none"]
    ELSE IF fail_at \in {"string", "config"}
         THEN [status |-> -ENODEV, can_change_mode |-> 0,
               gserial_initialized |-> 1, bound |-> "none"]
         ELSE [status |-> 0, can_change_mode |-> 1,
               gserial_initialized |-> 1,
               bound |-> IF in_acc # 0 THEN "accessory" ELSE "acm"]

\* the attribute file exists: from device_create_file in init() to
\* device_destroy in init()'s failure path or in cleanup()
FileExists == module_pc \in {"init_register", "init_bound", "init_failed", "loaded"}

\* init(): usb_composite_register up to the return of its bind callback gs_bind
InitRegister(fail_at) ==
    /\ module_pc = "init_register"
    /\ LET b == gs_bind(in_accessory_mode, gserial_initialized, fail_at)
       IN /\ can_change_mode' = b.can_change_mode
          /\ gserial_initialized' = b.gserial_initialized
          /\ sys_bound' = b.bound
          /\ module_pc' = IF b.status = 0 THEN "init_bound" ELSE "init_failed"
    /\ UNCHANGED <<envVars, connVars, dropped, wait_queue, ctrlVars, queueVars, taskVars,
                   in_accessory_mode, gadget_registered, sys_new_value, sys_size>>

\* init(): usb_composite_register returned 0: atomic_set(&gadget_registered, 1)
InitDone ==
    /\ module_pc = "init_bound"
    /\ gadget_registered' = 1
    /\ module_pc' = "loaded"
    /\ UNCHANGED <<envVars, connVars, dropped, wait_queue, ctrlVars, queueVars, taskVars,
                   in_accessory_mode, can_change_mode, gserial_initialized,
                   sys_bound, sys_new_value, sys_size>>

\* init(): usb_composite_register failed: device_destroy, which waits for the
\* stores that are running, class_destroy and gserial_cleanup
InitFail ==
    /\ module_pc = "init_failed"
    /\ \A t \in Tasks : pc[t] = "idle"
    /\ module_pc' = "failed"
    /\ UNCHANGED <<envVars, connVars, dropped, wait_queue, ctrlVars, queueVars, taskVars,
                   in_accessory_mode, can_change_mode, gadget_registered,
                   gserial_initialized, sys_bound, sys_new_value, sys_size>>

\* cleanup(): device_destroy, which waits for the stores that are running,
\* then usb_composite_unregister if gadget_registered is set
cleanup ==
    /\ module_pc = "loaded"
    /\ \A t \in Tasks : pc[t] = "idle"
    /\ module_pc' = "unloaded"
    /\ sys_bound' = IF gadget_registered # 0 THEN "none" ELSE sys_bound
    /\ UNCHANGED <<envVars, connVars, dropped, wait_queue, ctrlVars, queueVars, taskVars,
                   in_accessory_mode, can_change_mode, gadget_registered,
                   gserial_initialized, sys_new_value, sys_size>>

\* accessory_mode_store up to the comparison of new_value with
\* atomic_read(&in_accessory_mode)
accessory_mode_store(t, buf) ==
    /\ build = "sysfs"
    /\ FileExists
    /\ t \in users
    /\ pc[t] = "idle"
    /\ LET size == Len(buf)
       IN IF size = 0 \/ buf[1] \notin {48, 49}
          THEN /\ ReturnNow(t, -EINVAL)
               /\ UNCHANGED <<sys_new_value, sys_size>>
          ELSE LET new_value == (buf[1] = 49)
               IN IF new_value = (in_accessory_mode # 0)
                  THEN /\ ReturnNow(t, size)
                       /\ UNCHANGED <<sys_new_value, sys_size>>
                  ELSE /\ Enter(t, "st_claim", "store", MODE_NONE)
                       /\ sys_new_value' = [sys_new_value EXCEPT ![t] = new_value]
                       /\ sys_size' = [sys_size EXCEPT ![t] = size]
    /\ UNCHANGED <<envVars, connVars, dropped, wait_queue, ctrlVars, queueVars, in_accessory_mode,
                   can_change_mode, gadget_registered, gserial_initialized, sys_bound,
                   module_pc>>

\* accessory_mode_store: atomic_xchg(&can_change_mode, 0); return -1 when it
\* was 0 already
StClaim(t) ==
    /\ pc[t] = "st_claim"
    /\ LET x == atomic_xchg(can_change_mode, 0)
       IN /\ can_change_mode' = x.val
          /\ IF x.old = 0
             THEN /\ ReturnNow(t, -1)
                  /\ sys_new_value' = [sys_new_value EXCEPT ![t] = FALSE]
                  /\ sys_size' = [sys_size EXCEPT ![t] = 0]
             ELSE /\ pc' = [pc EXCEPT ![t] = "st_unregister"]
                  /\ UNCHANGED <<new_mode, caller, ret, calls, sys_new_value, sys_size>>
    /\ UNCHANGED <<envVars, connVars, dropped, wait_queue, ctrlVars, queueVars, in_accessory_mode,
                   gadget_registered, gserial_initialized, sys_bound, module_pc>>

\* accessory_mode_store: usb_composite_unregister(&gserial_driver)
StUnregister(t) ==
    /\ pc[t] = "st_unregister"
    /\ sys_bound' = "none"
    /\ calls' = [calls EXCEPT ![t] = Append(@, "unregister")]
    /\ pc' = [pc EXCEPT ![t] = "st_set"]
    /\ UNCHANGED <<envVars, connVars, dropped, wait_queue, ctrlVars, queueVars, new_mode, caller, ret,
                   in_accessory_mode, can_change_mode, gadget_registered,
                   gserial_initialized, sys_new_value, sys_size, module_pc>>

\* accessory_mode_store: atomic_set(&in_accessory_mode, new_value ? 1 : 0)
StSet(t) ==
    /\ pc[t] = "st_set"
    /\ in_accessory_mode' = IF sys_new_value[t] THEN 1 ELSE 0
    /\ pc' = [pc EXCEPT ![t] = "st_register"]
    /\ UNCHANGED <<envVars, connVars, dropped, wait_queue, ctrlVars, queueVars, new_mode, caller, ret, calls,
                   can_change_mode, gadget_registered, gserial_initialized,
                   sys_bound, sys_new_value, sys_size, module_pc>>

\* accessory_mode_store: usb_composite_register up to the return of its bind
\* callback gs_bind, whose status becomes register's.  The driver holds no
\* lock here: what gs_bind wrote is visible before register has returned.
StRegister(t, fail_at) ==
    /\ pc[t] = "st_register"
    /\ LET b == gs_bind(in_accessory_mode, gserial_initialized, fail_at)
       IN /\ can_change_mode' = b.can_change_mode
          /\ gserial_initialized' = b.gserial_initialized
          /\ sys_bound' = b.bound
          /\ ret' = [ret EXCEPT ![t] = b.status]
    /\ calls' = [calls EXCEPT ![t] = Append(@, "register")]
    /\ pc' = [pc EXCEPT ![t] = "st_return"]
    /\ UNCHANGED <<envVars, connVars, dropped, wait_queue, ctrlVars, queueVars, new_mode, caller,
                   in_accessory_mode, gadget_registered, sys_new_value, sys_size,
                   module_pc>>

\* accessory_mode_store: usb_composite_register has returned status;
\* atomic_set(&gadget_registered, 0) when it failed, and the return of size
\* or of the negative status
StReturn(t) ==
    /\ pc[t] = "st_return"
    /\ LET status == ret[t]
       IN /\ gadget_registered' = IF status # 0 THEN 0 ELSE gadget_registered
          /\ ret' = [ret EXCEPT ![t] = IF status = 0 THEN sys_size[t]
                                       ELSE IF status < 0 THEN status
                                       ELSE -status]
    /\ pc' = [pc EXCEPT ![t] = "idle"]
    /\ caller' = [caller EXCEPT ![t] = "none"]
    /\ sys_new_value' = [sys_new_value EXCEPT ![t] = FALSE]
    /\ sys_size' = [sys_size EXCEPT ![t] = 0]
    /\ UNCHANGED <<envVars, connVars, dropped, wait_queue, ctrlVars, queueVars, new_mode, calls,
                   in_accessory_mode, can_change_mode, gserial_initialized,
                   sys_bound, module_pc>>

(* ------------------------------------------------------------------ *)
(* aoa_set_connected_acm: the xchg of the flag, then the event add     *)
(* ------------------------------------------------------------------ *)

\* aoa_set_connected_acm up to its test: atomic_xchg of the flag; when the old
\* value is the requested one the call returns, otherwise it goes on to add the
\* event.  Nothing is held between the xchg and the add.
aoa_set_connected_acm(c, new) ==
    /\ build = "aoa_ctrl"
    /\ c \in setters
    /\ set_pc[c] = "idle"
    /\ LET x == atomic_xchg(aoa_connected_acm, new)
       IN /\ aoa_connected_acm' = x.val
          /\ IF x.old # new
             THEN /\ set_pc' = [set_pc EXCEPT ![c] = "add"]
                  /\ new_connected_acm' = [new_connected_acm EXCEPT ![c] = new]
             ELSE UNCHANGED <<set_pc, new_connected_acm>>
    /\ UNCHANGED <<envVars, set_nodes, ctrlVars, queueVars, dropped, wait_queue,
                   taskVars, sysVars>>

\* aoa_set_connected_acm after a changed flag: aoa_event_add of Connected or
\* Disconnected, as in aoa_event_add, and the return
SetConnectedAdd(c) ==
    /\ set_pc[c] = "add"
    /\ LET type == IF new_connected_acm[c] THEN AOA_EVENT_CONNECTED_ACM
                   ELSE AOA_EVENT_DISCONNECTED_ACM
       IN \/ /\ Len(heap) < node_limit
             /\ EnqueueNode(type, <<>>, <<>>)
             /\ set_nodes' = Append(set_nodes, Len(heap) + 1)
             /\ UNCHANGED dropped
          \/ /\ DropRecord
             /\ UNCHANGED set_nodes
    /\ set_pc' = [set_pc EXCEPT ![c] = "idle"]
    /\ new_connected_acm' = [new_connected_acm EXCEPT ![c] = FALSE]
    /\ UNCHANGED <<envVars, aoa_connected_acm, ctrlVars, taskVars, sysVars>>

(* ------------------------------------------------------------------ *)
(* The specification                                                   *)
(* ------------------------------------------------------------------ *)

Next ==
    \/ \E ty \in EventTypes : aoa_event_add(ty)
    \/ \E ty \in StringTypes, b \in StrBufs :
           aoa_str_received_event_add(ty, b, Len(b))
    \/ \E c \in Callers, new \in BOOLEAN : aoa_set_connected_acm(c, new)
    \/ \E c \in Callers : SetConnectedAdd(c)
    \/ \E t \in Tasks : aoa_open(t)
    \/ \E t \in Tasks : OpenRet(t)
    \/ \E t \in Tasks : sys_close(t)
    \/ \E t \in Tasks : aoa_release(t)
    \/ \E t \in Tasks : ReleaseClear(t)
    \/ \E t \in Tasks, code \in IoctlCodes : aoa_ioctl(t, code)
    \/ \E t \in Tasks, bn \in BOOLEAN, len \in ReadLens : aoa_read(t, bn, len)
    \/ \E t \in Tasks : ReadSignal(t)
    \/ \E t \in Tasks : ReadWake(t)
    \/ \E t \in Tasks : aoa_poll(t)
    \/ \E t \in Tasks : SmLock(t)
    \/ \E t \in Tasks : SmCheck(t)
    \/ \E t \in Tasks, st \in {0} \cup ProbeErrors : SmSwitch(t, st)
    \/ \E t \in Tasks : SmSet(t)
    \/ \E t \in Tasks : RmLock(t)
    \/ \E t \in Tasks : RmCheck(t)
    \/ \E t \in Tasks, st \in {0} \cup ProbeErrors : RmProbe(t, st)
    \/ \E t \in Tasks : SmDone(t)
    \/ \E t \in Tasks : RmDone(t)
    \/ \E t \in Tasks, b \in SysfsBufs : accessory_mode_store(t, b)
    \/ \E t \in Tasks : StClaim(t)
    \/ \E t \in Tasks : StUnregister(t)
    \/ \E t \in Tasks : StSet(t)
    \/ \E t \in Tasks, f \in BindFailures : StRegister(t, f)
    \/ \E t \in Tasks : StReturn(t)
    \/ \E f \in BindFailures : InitRegister(f)
    \/ InitDone
    \/ InitFail
    \/ cleanup

Spec == Init /\ [][Next]_vars

\* a reader that aoa_event_node_add's wake_up_locked or a signal has woken is
\* run by the scheduler: it returns or goes back to sleep.  A reader that is
\* still asleep is not assumed to run, whatever the cursor is: one push wakes
\* one exclusive waiter.  Nothing else is assumed to happen: no push, no
\* signal, no call.
ReaderRuns(t) == ReadWake(t)

\* a release that is pending is called once no call is running on the file
PendingRelease(t) == aoa_release(t) /\ fd_closed

LiveSpec ==
    /\ Init /\ [][Next]_vars
    /\ \A t \in Tasks : WF_vars(ReaderRuns(t))
    /\ \A t \in Tasks : WF_vars(PendingRelease(t))

(* ------------------------------------------------------------------ *)
(* Views of the state used by the properties                           *)
(* ------------------------------------------------------------------ *)

\* the nodes met walking list.next from n until stop, at most fuel of them
RECURSIVE Walk(_, _, _, _)
Walk(h, n, stop, fuel) ==
    IF n = NULL \/ fuel = 0 \/ n \notin DOMAIN h
    THEN <<>>
    ELSE IF n = stop
         THEN <<n>>
         ELSE <<n>> \o Walk(h, h[n].next, stop, fuel - 1)

\* the log: the nodes from the head to the tail
LogSeq == Walk(heap, first_aoa_event_node, last_aoa_event_node, Len(heap))
\* the unread records: the nodes from the cursor to the tail
UnreadSeq == Walk(heap, next_aoa_event_node, last_aoa_event_node, Len(heap))
\* the nodes whose records were delivered, in delivery order
DeliveredNodes == [i \in 1..Len(delivered) |-> delivered[i].node]
\* no Connected event was ever pushed
NoConnectedPushed ==
    \A i \in 1..Len(heap) : heap[i].type # AOA_EVENT_CONNECTED_ACM
\* the most recently pushed Connected event, NULL if there is none
LastConnected ==
    IF NoConnectedPushed THEN NULL
    ELSE CHOOSE i \in 1..Len(heap) :
             /\ heap[i].type = AOA_EVENT_CONNECTED_ACM
             /\ \A j \in (i + 1)..Len(heap) : heap[j].type # AOA_EVENT_CONNECTED_ACM
\* the record a correct read of node n hands to the user
RecordOf(n) ==
    [node |-> n, type |-> heap[n].type,
     string |-> IF heap[n].str = <<>> THEN <<>>
                ELSE <<heap[n].str_type, heap[n].str>>]
\* a task is inside switch_mode's or reset_mode's critical section
InCritical(t) ==
    pc[t] \in {"sm_check", "sm_switch", "sm_set", "sm_done",
               "rm_check", "rm_probe", "rm_done"}

(* ------------------------------------------------------------------ *)
(* C1                                                                  *)
(* ------------------------------------------------------------------ *)

\* C1: when switch_mode's usb_composite_probe has failed, current_mode is
\* MODE_NONE, whatever the mode was before and whatever the target.
C1_FailedSwitchLeavesNone ==
    \A t \in Tasks :
        (pc[t] = "sm_done" /\ ret[t] # 0) => current_mode = MODE_NONE

(* ------------------------------------------------------------------ *)
(* C2                                                                  *)
(* ------------------------------------------------------------------ *)

\* C2: as long as no Connected event was pushed, the reads of a session
\* deliver the pushed records in insertion order, each once and none skipped:
\* the k records delivered are nodes 1..k with their contents, the cursor is
\* on node k + 1, and an empty cursor means every pushed record was delivered.
C2_InsertionOrder ==
    NoConnectedPushed =>
        /\ \A i \in 1..Len(delivered) : delivered[i] = RecordOf(i)
        /\ Len(delivered) <= Len(heap)
        /\ next_aoa_event_node =
               IF Len(delivered) = Len(heap) THEN NULL ELSE Len(delivered) + 1

\* three records pushed, none Connected, all three delivered in one session
C2_Witness ==
    /\ NoConnectedPushed
    /\ Len(heap) = MaxNodes
    /\ Len(delivered) = MaxNodes
    /\ nfiles = 1

(* ------------------------------------------------------------------ *)
(* C3                                                                  *)
(* ------------------------------------------------------------------ *)

\* C3: once a Connected event was pushed, the most recent one is the head of
\* the log and the log holds it and the records pushed after it, nothing
\* older; the cursor and every record delivered since are in that log.  So
\* right after the push of a Connected (it is the newest node and nothing was
\* delivered since) the log and the unread records are that one node.
C3_ConnectedCompacts ==
    LastConnected # NULL =>
        /\ first_aoa_event_node = LastConnected
        /\ LogSeq = [i \in 1..(Len(heap) - LastConnected + 1) |-> LastConnected + i - 1]
        /\ next_aoa_event_node \in {NULL} \cup (LastConnected..Len(heap))
        /\ \A i \in 1..Len(delivered) : delivered[i].node >= LastConnected
        /\ (LastConnected = Len(heap) /\ delivered = <<>>) =>
               /\ UnreadSeq = <<LastConnected>>
               /\ last_aoa_event_node = LastConnected

\* a Connected was pushed onto two buffered records while a session is open
C3_Witness ==
    /\ Len(heap) = MaxNodes
    /\ LastConnected = Len(heap)
    /\ heap[1].type # AOA_EVENT_CONNECTED_ACM
    /\ heap[2].type # AOA_EVENT_CONNECTED_ACM
    /\ delivered = <<>>
    /\ UnreadSeq = <<LastConnected>>
    /\ nfiles = 1

(* ------------------------------------------------------------------ *)
(* C4                                                                  *)
(* ------------------------------------------------------------------ *)

\* C4: the records delivered since the last successful open (or since the log
\* got a new head), followed by the unread records, are the whole log from
\* the head in insertion order, each with its contents: an open replays every
\* record held in the log, whoever read it before.
C4_OpenReplaysLog ==
    /\ DeliveredNodes \o UnreadSeq = LogSeq
    /\ \A i \in 1..Len(delivered) : delivered[i] = RecordOf(LogSeq[i])

\* String, Connected, StartRequested were pushed, then a session was opened
\* and its reads returned Connected, StartRequested
C4_Witness ==
    /\ Len(heap) = 3
    /\ heap[1].type = AOA_EVENT_STRING_RECEIVED
    /\ heap[2].type = AOA_EVENT_CONNECTED_ACM
    /\ heap[3].type = AOA_EVENT_START_REQUESTED
    /\ nfiles = 1
    /\ Len(delivered) = 2
    /\ delivered[1].type = AOA_EVENT_CONNECTED_ACM
    /\ delivered[2].type = AOA_EVENT_START_REQUESTED
    /\ next_aoa_event_node = NULL

(* ------------------------------------------------------------------ *)
(* C5                                                                  *)
(* ------------------------------------------------------------------ *)

\* C5: there is never more than one open control session, and an aoa_open
\* called while the open flag is set returns -EBUSY at once and changes
\* neither current_mode, nor the registration, nor the mutex, nor the event
\* list and its cursor, nor the open flag, nor the number of sessions.
C5_Step ==
    /\ nfiles' <= 1
    /\ \A t \in Tasks :
           (aoa_ctrl_open /\ aoa_open(t)) =>
               /\ ret'[t] = -EBUSY
               /\ pc'[t] = "idle"
               /\ UNCHANGED <<current_mode, registered, mode_switch_mutex,
                              heap, first_aoa_event_node, last_aoa_event_node,
                              next_aoa_event_node, aoa_ctrl_open, nfiles>>
\* C5: every step of the driver satisfies C5_Step
C5_SingleSession == [][C5_Step]_vars

\* a second open was refused while the session of the other task is open
C5_Witness ==
    /\ nfiles = 1
    /\ aoa_ctrl_open
    /\ \E t \in Tasks : pc[t] = "idle" /\ ret[t] = -EBUSY

(* ------------------------------------------------------------------ *)
(* C6                                                                  *)
(* ------------------------------------------------------------------ *)

\* C6: at most one task is inside the critical section of switch_mode or
\* reset_mode, and it is the holder of mode_switch_mutex; a task that arrives
\* while the mutex is held stays at its mutex_lock with no result; and
\* whenever no transition is in progress current_mode is the target of the
\* request whose registration completed last.
C6_Step ==
    /\ \A t \in Tasks : InCritical(t)' => mode_switch_mutex' = t
    /\ \A t \in Tasks :
           (pc[t] \in {"sm_lock", "rm_lock"} /\ mode_switch_mutex # NoTask) =>
               (pc'[t] = pc[t] /\ ret'[t] = ret[t])
    /\ (mode_switch_mutex' = NoTask) => (current_mode' = last_target')
\* C6: every step of the driver satisfies C6_Step
C6_TransitionsSerialized == [][C6_Step]_vars

\* one task holds the mutex between unregister and set while the other task
\* waits at its mutex_lock with a different target
C6_Witness ==
    \E t, u \in Tasks :
        /\ pc[t] = "sm_set"
        /\ pc[u] = "sm_lock"
        /\ new_mode[t] # new_mode[u]
        /\ calls[t] = <<"unregister", Binder(new_mode[t])>>

(* ------------------------------------------------------------------ *)
(* C7                                                                  *)
(* ------------------------------------------------------------------ *)

\* C7: a switch_mode that finds current_mode equal to its target goes to done
\* with ret 0, has made no transport call and leaves current_mode and the
\* registration alone, and its unlock and return change none of these; an
\* accessory_mode_store of the value in_accessory_mode already has returns
\* size, makes no transport call and leaves the mode state alone.
C7_Step ==
    /\ \A t \in Tasks :
           (pc[t] = "sm_check" /\ current_mode = new_mode[t] /\ pc'[t] # pc[t]) =>
               /\ pc'[t] = "sm_done"
               /\ ret'[t] = 0
               /\ calls'[t] = <<>>
               /\ UNCHANGED <<current_mode, registered>>
    /\ \A t \in Tasks :
           (pc[t] = "sm_done" /\ pc'[t] # pc[t]) =>
               /\ ret'[t] = ret[t]
               /\ calls'[t] = calls[t]
               /\ UNCHANGED <<current_mode, registered>>
    /\ \A t \in Tasks, buf \in {b \in SysfsBufs : Len(b) > 0 /\ b[1] \in {48, 49}} :
           (accessory_mode_store(t, buf) /\ (buf[1] = 49) = (in_accessory_mode # 0)) =>
               /\ ret'[t] = Len(buf)
               /\ pc'[t] = "idle"
               /\ calls'[t] = <<>>
               /\ UNCHANGED <<in_accessory_mode, can_change_mode,
                              gadget_registered, gserial_initialized, sys_bound>>
\* C7: every step of the driver satisfies C7_Step
C7_SameModeNoOp == [][C7_Step]_vars

\* an ioctl switch to AOA found current_mode == MODE_AOA: done, success, no call
C7_Witness ==
    \E t \in Tasks :
        /\ pc[t] = "sm_done"
        /\ caller[t] = "ioctl"
        /\ new_mode[t] = MODE_AOA
        /\ current_mode = MODE_AOA
        /\ registered = MODE_AOA
        /\ calls[t] = <<>>
        /\ ret[t] = 0

(* ------------------------------------------------------------------ *)
(* C8                                                                  *)
(* ------------------------------------------------------------------ *)

\* C8: when aoa_open's switch_mode(MODE_ACM) has failed, aoa_open returns that
\* error, clears the open flag and leaves the cursor and the list alone; and
\* the open flag is set only while a session is open or an open or a release
\* is under way, so that the next open is not refused.
C8_Step ==
    /\ \A t \in Tasks :
           (pc[t] = "open_ret" /\ ret[t] # 0 /\ pc'[t] # pc[t]) =>
               /\ pc'[t] = "idle"
               /\ ret'[t] = ret[t]
               /\ ret'[t] \in ProbeErrors
               /\ aoa_ctrl_open' = FALSE
               /\ nfiles' = nfiles
               /\ UNCHANGED <<heap, first_aoa_event_node, last_aoa_event_node,
                              next_aoa_event_node, delivered>>
    /\ aoa_ctrl_open' =
           (nfiles' > 0 \/ \E t \in Tasks : caller'[t] \in {"open", "release"})
\* C8: every step of the driver satisfies C8_Step
C8_FailedOpenRollsBack == [][C8_Step]_vars

\* the only task's open failed while the cursor was not on the head of a
\* non-empty log: no session, flag clear, cursor where it was
C8_Witness ==
    /\ users = {"t1"}
    /\ pc["t1"] = "idle"
    /\ ret["t1"] = -ENODEV
    /\ nfiles = 0
    /\ ~aoa_ctrl_open
    /\ first_aoa_event_node # NULL
    /\ next_aoa_event_node # first_aoa_event_node

(* ------------------------------------------------------------------ *)
(* C9                                                                  *)
(* ------------------------------------------------------------------ *)

\* C9: when aoa_release returns, current_mode is MODE_NONE and the open flag
\* is clear; the mode is MODE_NONE already when the flag is about to be
\* cleared, and during the whole release the flag is still set, no session
\* exists and no open is past its test of the flag.
C9_Step ==
    /\ \A t \in Tasks :
           (pc[t] = "release_clear" /\ pc'[t] # pc[t]) =>
               /\ pc'[t] = "idle"
               /\ ret'[t] = 0
               /\ current_mode' = MODE_NONE
               /\ aoa_ctrl_open' = FALSE
    /\ \A t \in Tasks :
           pc'[t] = "release_clear" => (current_mode' = MODE_NONE /\ aoa_ctrl_open')
    /\ \A t \in Tasks :
           caller'[t] = "release" =>
               /\ aoa_ctrl_open'
               /\ nfiles' = 0
               /\ \A u \in Tasks : caller'[u] # "open"
\* C9: every step of the driver satisfies C9_Step
C9_ReleaseEndsInNone == [][C9_Step]_vars

\* a release has torn down a personality and is about to clear the flag
C9_Witness ==
    \E t \in Tasks :
        /\ pc[t] = "release_clear"
        /\ calls[t] = <<"unregister">>
        /\ current_mode = MODE_NONE
        /\ aoa_ctrl_open

(* ------------------------------------------------------------------ *)
(* C10                                                                 *)
(* ------------------------------------------------------------------ *)

\* C10: an aoa_read whose len is not sizeof(struct aoa_event) returns -EINVAL
\* in that very step, also with an empty cursor, and leaves the list, its
\* head, tail and cursor and the delivered records as they were.
C10_Step ==
    \A t \in Tasks, bn \in BOOLEAN, len \in ReadLens :
        (len # SizeofAoaEvent /\ aoa_read(t, bn, len)) =>
            /\ ret'[t] = -EINVAL
            /\ pc'[t] = "idle"
            /\ UNCHANGED <<heap, first_aoa_event_node, last_aoa_event_node,
                           next_aoa_event_node, delivered>>
\* C10: every step of the driver satisfies C10_Step
C10_BadLengthRead == [][C10_Step]_vars

\* a read of the wrong length was refused while a record was waiting
C10_Witness ==
    \E t \in Tasks :
        /\ pc[t] = "idle"
        /\ ret[t] = -EINVAL
        /\ nfiles = 1
        /\ next_aoa_event_node # NULL
        /\ delivered = <<>>

(* ------------------------------------------------------------------ *)
(* C11                                                                 *)
(* ------------------------------------------------------------------ *)

\* a step of task t inside aoa_read: the call itself or the wake from the wait
ReadStep(t) ==
    \/ \E bn \in BOOLEAN, len \in ReadLens : aoa_read(t, bn, len)
    \/ ReadWake(t)

\* C11: an aoa_read that returns -EINTR found the cursor empty and leaves the
\* list, its head, tail and cursor and the delivered records as they were; an
\* aoa_read that returns -EFAULT leaves them as they were too, the cursor still
\* on the record it failed to copy; a push onto an empty cursor puts the
\* cursor on the pushed node, and a read that returns a length has delivered
\* the whole record at the cursor, so the record pushed after an interrupted
\* read is the one the following read returns.
C11_Step ==
    /\ \A t \in Tasks :
           (ret'[t] = -EINTR /\ ReadStep(t)) =>
               /\ pc'[t] = "idle"
               /\ next_aoa_event_node = NULL
               /\ UNCHANGED <<heap, first_aoa_event_node, last_aoa_event_node,
                              next_aoa_event_node, delivered>>
    /\ \A t \in Tasks :
           (ret'[t] = -EFAULT /\ ReadStep(t)) =>
               /\ pc'[t] = "idle"
               /\ next_aoa_event_node # NULL
               /\ UNCHANGED <<heap, first_aoa_event_node, last_aoa_event_node,
                              next_aoa_event_node, delivered>>
    /\ (next_aoa_event_node = NULL /\ Len(heap') = Len(heap) + 1) =>
           next_aoa_event_node' = Len(heap')
    /\ \A t \in Tasks :
           (ret'[t] > 0 /\ ReadStep(t)) =>
               /\ next_aoa_event_node # NULL
               /\ delivered' = Append(delivered, RecordOf(next_aoa_event_node))
               /\ ret'[t] = IF heap[next_aoa_event_node].str = <<>>
                            THEN SizeofEnum
                            ELSE SizeofEnum + SizeofEnum
                                     + Len(heap[next_aoa_event_node].str)
\* C11: every step of the driver satisfies C11_Step
C11_FailedReadKeepsCursor == [][C11_Step]_vars

\* the only consumer's read was interrupted after it had read a record, and
\* the record pushed since is unread at the cursor
C11_Witness ==
    /\ users = {"t1"}
    /\ pc["t1"] = "idle"
    /\ ret["t1"] = -EINTR
    /\ nfiles = 1
    /\ Len(delivered) >= 1
    /\ Len(heap) >= 2
    /\ next_aoa_event_node = Len(heap)

\* a read failed to copy the record at the cursor, which is still unread
C11_FaultState ==
    \E t \in Tasks :
        /\ pc[t] = "idle"
        /\ ret[t] = -EFAULT
        /\ next_aoa_event_node # NULL

(* ------------------------------------------------------------------ *)
(* C12                                                                 *)
(* ------------------------------------------------------------------ *)

\* C12: from its mutex_lock to its return reset_mode leaves current_mode as it
\* is, whether its probe succeeds or fails, and so does every other task in
\* the meantime; when it finds MODE_NONE it goes to done with ret 0 and has
\* made no transport call; otherwise, when it is done, its transport calls
\* are one unregister followed by one usb_composite_probe with the binder of
\* the personality in current_mode, whose status is its return value.  (No
\* caller reaches reset_mode in MODE_NONE: aoa_ioctl needs an open session,
\* and current_mode is a personality from the successful open to the release.)
C12_Step ==
    \A t \in Tasks :
        /\ pc[t] \in {"rm_check", "rm_probe", "rm_done"} =>
               current_mode' = current_mode
        /\ (pc[t] = "rm_lock" /\ pc'[t] # pc[t]) => current_mode' = current_mode
        /\ (pc[t] = "rm_check" /\ current_mode = MODE_NONE /\ pc'[t] # pc[t]) =>
               /\ pc'[t] = "rm_done"
               /\ ret'[t] = 0
               /\ calls'[t] = <<>>
               /\ registered' = registered
        /\ pc'[t] = "rm_done" =>
               calls'[t] = IF current_mode' = MODE_NONE THEN <<>>
                           ELSE <<"unregister", Binder(current_mode')>>
        /\ (pc'[t] = "rm_done" /\ current_mode' # MODE_NONE) =>
               registered' = IF ret'[t] = 0 THEN current_mode' ELSE MODE_NONE
        /\ (pc[t] = "rm_done" /\ pc'[t] # pc[t]) =>
               /\ pc'[t] = "idle"
               /\ ret'[t] = ret[t]
               /\ calls'[t] = calls[t]
\* C12: every step of the driver satisfies C12_Step
C12_ResetKeepsMode == [][C12_Step]_vars

\* a reset in MODE_AOA whose probe failed: AOA unregistered, gs_bind_aoa
\* probed, current_mode still MODE_AOA
C12_Witness ==
    \E t \in Tasks :
        /\ pc[t] = "rm_done"
        /\ ret[t] = -ENODEV
        /\ current_mode = MODE_AOA
        /\ calls[t] = <<"unregister", "gs_bind_aoa">>

(* ------------------------------------------------------------------ *)
(* C13                                                                 *)
(* ------------------------------------------------------------------ *)

\* the transport calls one transition may have made so far
TransitionCalls ==
    {<<>>, <<"unregister">>} \cup
    {<<Binder(m)>> : m \in {MODE_ACM, MODE_AOA}} \cup
    {<<"unregister", Binder(m)>> : m \in {MODE_ACM, MODE_AOA}}

\* C13: a usb_composite_probe is issued only by the holder of the mutex and
\* only while nothing is registered with the transport; the calls of one
\* transition are at most one unregister and then at most one probe, and the
\* unregister was made whenever something was registered when the transition
\* started; the personality registered, if any, is the one in current_mode or
\* the one switch_mode is about to store there.  In the sysfs variant the
\* register is issued only after the unregister, with no configuration bound.
C13_Step ==
    /\ \A t \in Tasks :
           /\ (pc[t] \in {"sm_switch", "rm_probe"} /\ pc'[t] # pc[t]
                   /\ Len(calls'[t]) = Len(calls[t]) + 1) =>
                  /\ registered = MODE_NONE
                  /\ mode_switch_mutex = t
           /\ (pc[t] \in {"sm_check", "rm_check"} /\ pc'[t] # pc[t]
                   /\ registered # MODE_NONE
                   /\ pc'[t] \in {"sm_switch", "rm_probe"}) =>
                  /\ calls'[t] = <<"unregister">>
                  /\ registered' = MODE_NONE
           /\ calls'[t] \in TransitionCalls \cup {<<"unregister", "register">>}
           /\ (pc[t] = "st_register" /\ pc'[t] # pc[t]) =>
                  /\ sys_bound = "none"
                  /\ calls'[t] = <<"unregister", "register">>
    /\ registered' # MODE_NONE =>
           \/ registered' = current_mode'
           \/ \E t \in Tasks : pc'[t] = "sm_set" /\ new_mode'[t] = registered'
                                   /\ mode_switch_mutex' = t
\* C13: every step of the driver satisfies C13_Step
C13_TeardownBeforeRegister == [][C13_Step]_vars

\* a switch from ACM to AOA after its probe: ACM was unregistered first, AOA
\* is registered, current_mode is not yet updated
C13_Witness ==
    \E t \in Tasks :
        /\ pc[t] = "sm_set"
        /\ current_mode = MODE_ACM
        /\ registered = MODE_AOA
        /\ calls[t] = <<"unregister", "gs_bind_aoa">>

(* ------------------------------------------------------------------ *)
(* C14                                                                 *)
(* ------------------------------------------------------------------ *)

\* a record was copied to the user, or the copy failed: what a read returns
\* when it was not interrupted
IsReadResult(r) == r > 0 \/ r = -EFAULT

\* C14, the steps: a push that enqueues a node leaves the cursor non-null, on
\* the new node if it was empty, wakes the first sleeper of the wait queue
\* and no other, and changes no task's position; a task that leaves the wait
\* while the cursor is non-null returns a record (or -EFAULT when the copy to
\* the user fails), never -EINTR; while the single consumer waits, nothing
\* empties a non-null cursor.
C14_Step ==
    /\ Len(heap') = Len(heap) + 1 =>
           /\ next_aoa_event_node' # NULL
           /\ next_aoa_event_node = NULL => next_aoa_event_node' = Len(heap')
           /\ wait_queue' = IF wait_queue = <<>> THEN <<>> ELSE Tail(wait_queue)
           /\ UNCHANGED taskVars
    /\ \A t \in Tasks :
           (InWait(t) /\ next_aoa_event_node # NULL /\ pc'[t] # pc[t]
              /\ pc'[t] # "read_signalled") =>
               /\ pc'[t] = "idle"
               /\ IsReadResult(ret'[t])
    /\ \A t \in Tasks :
           (users = {t} /\ InWait(t) /\ next_aoa_event_node # NULL
              /\ pc'[t] = pc[t]) =>
               next_aoa_event_node' # NULL

\* C14, the sleepers: the wait queue holds tasks at the wait of aoa_read, each
\* once; the single consumer is asleep on an empty cursor only, so the push
\* that fills the cursor has woken it
C14_Sleepers ==
    /\ \A i \in 1..Len(wait_queue) :
           /\ pc[wait_queue[i]] = "read_wait"
           /\ \A j \in 1..Len(wait_queue) : wait_queue[i] = wait_queue[j] => i = j
    /\ \A t \in Tasks :
           (users = {t} /\ t \in Sleepers) => next_aoa_event_node = NULL

\* C14, the push does not wait: whatever the tasks are doing, also while one
\* sleeps in read or holds the mutex, a push is possible as long as the bounded
\* kmalloc has a node left
C14_PushEnabled ==
    (build = "aoa_ctrl" /\ Len(heap) < node_limit) =>
        /\ \A ty \in EventTypes : ENABLED aoa_event_add(ty)
        /\ \A ty \in StringTypes, b \in StrBufs :
               ENABLED aoa_str_received_event_add(ty, b, Len(b))

\* C14: the steps, the sleepers and the push are as above, and under LiveSpec
\* no woken task, and no single consumer, stays in the wait of read for ever
\* while the cursor is non-null: again and again it is out of the wait or the
\* cursor is empty.  With the steps, the single consumer that sleeps when a
\* push makes the cursor non-null returns from its read with a record (or
\* -EFAULT).
C14_PushWakesReader ==
    /\ [][C14_Step]_vars
    /\ []C14_Sleepers
    /\ []C14_PushEnabled
    /\ \A t \in Tasks :
           []<>(~(InWait(t) /\ next_aoa_event_node # NULL
                   /\ (users = {t} \/ t \notin Sleepers)))

\* the single consumer sleeps in read after it had emptied the cursor, and a
\* push has put the cursor on the new node
C14_Witness ==
    /\ users = {"t1"}
    /\ pc["t1"] = "read_wait"
    /\ wait_queue = <<>>
    /\ Len(delivered) >= 1
    /\ next_aoa_event_node = Len(heap)

(* ------------------------------------------------------------------ *)
(* C15                                                                 *)
(* ------------------------------------------------------------------ *)

\* the records read in the session are nodes in strictly increasing order of
\* insertion, each the record that was inserted
C15_Ordered ==
    /\ \A i, j \in 1..Len(session_reads) :
           i < j => session_reads[i].node < session_reads[j].node
    /\ \A i \in 1..Len(session_reads) :
           /\ session_reads[i].node \in 1..Len(heap)
           /\ session_reads[i] = RecordOf(session_reads[i].node)

\* C15: in every state the records read since the session was opened are an
\* order-preserving subsequence of the insertion sequence with no record
\* twice, whatever was pushed in between; and a read that delivers a record
\* delivers the one at the cursor, which is not older than the most recent
\* Connected pushed before the read.
C15_Step ==
    /\ C15_Ordered'
    /\ Len(session_reads') = Len(session_reads) + 1 =>
           LET e == session_reads'[Len(session_reads')]
           IN /\ e.node = next_aoa_event_node
              /\ \A c \in 1..Len(heap) :
                     heap[c].type = AOA_EVENT_CONNECTED_ACM => e.node >= c
\* C15: every step of the driver satisfies C15_Step
C15_SessionOrder == [][C15_Step]_vars

\* one session read node 1, then a record and a Connected were pushed, and
\* the next read returned the Connected: node 2 was dropped unread
C15_Witness ==
    /\ nfiles = 1
    /\ Len(heap) = 3
    /\ heap[3].type = AOA_EVENT_CONNECTED_ACM
    /\ Len(session_reads) = 2
    /\ session_reads[1].node = 1
    /\ session_reads[2].node = 3
    /\ heap[2].freed

(* ------------------------------------------------------------------ *)
(* C16                                                                 *)
(* ------------------------------------------------------------------ *)

\* C16, the step: a push whose allocation fails drops its record and changes
\* nothing else: not the list, its head, tail and cursor, not the records
\* delivered, not a task's position or result, not the wait queue (a reader
\* asleep on the empty cursor stays asleep on the empty cursor), not the mode
\* state.
C16_Step ==
    dropped' # dropped =>
        /\ dropped' = dropped + 1
        /\ UNCHANGED <<heap, first_aoa_event_node, last_aoa_event_node,
                       next_aoa_event_node, delivered, session_reads>>
        /\ LogSeq' = LogSeq
        /\ UNCHANGED <<taskVars, wait_queue>>
        /\ UNCHANGED ctrlVars

\* C16, the failing push does not wait: it is possible whatever the tasks
\* are doing, as long as the bounded kmalloc has a failure left
C16_DropEnabled ==
    (build = "aoa_ctrl" /\ dropped < drop_limit) =>
        /\ \A ty \in EventTypes : ENABLED (aoa_event_add(ty) /\ dropped' # dropped)
        /\ \A ty \in StringTypes, b \in StrBufs :
               ENABLED (aoa_str_received_event_add(ty, b, Len(b)) /\ dropped' # dropped)

\* C16: every step satisfies C16_Step and every state C16_DropEnabled
C16_FailedPushDrops == [][C16_Step]_vars /\ []C16_DropEnabled

\* a record was dropped in a run whose reader sleeps on the empty cursor of a
\* non-empty log
C16_Witness ==
    /\ dropped = 1
    /\ pc["t1"] = "read_wait"
    /\ wait_queue = <<"t1">>
    /\ first_aoa_event_node # NULL
    /\ next_aoa_event_node = NULL

(* ------------------------------------------------------------------ *)
(* C17                                                                 *)
(* ------------------------------------------------------------------ *)

\* C17: when the session's descriptor is closed while a task sleeps in read,
\* that task eventually leaves the wait and its read returns.
C17_CloseUnblocksReader ==
    \A t \in Tasks :
        (pc[t] = "read_wait" /\ fd_closed) ~> (pc[t] = "idle")

(* ------------------------------------------------------------------ *)
(* C18                                                                 *)
(* ------------------------------------------------------------------ *)

\* C18: once a Connected event was pushed, every node enqueued before the most
\* recent one has been freed (kfree of its string and of the node), so that
\* of the nodes up to that Connected it is the only one still allocated.
C18_ConnectedFreesOlder ==
    LastConnected # NULL =>
        \A i \in 1..(LastConnected - 1) : heap[i].freed

(* ------------------------------------------------------------------ *)
(* C19                                                                 *)
(* ------------------------------------------------------------------ *)

\* the elements of a sequence
Elems(q) == {q[i] : i \in 1..Len(q)}

\* the cursor is NULL or a node that is not freed and is met walking from the
\* head to the tail; with a head, the walk from the head ends at the tail, the
\* tail's list.next closes the ring at the head, and every node met is live
C19_Inv ==
    LET log == LogSeq IN
    /\ next_aoa_event_node # NULL =>
           /\ next_aoa_event_node \in 1..Len(heap)
           /\ ~heap[next_aoa_event_node].freed
           /\ next_aoa_event_node \in Elems(log)
    /\ first_aoa_event_node # NULL =>
           /\ log # <<>>
           /\ log[Len(log)] = last_aoa_event_node
           /\ heap[last_aoa_event_node].next = first_aoa_event_node
           /\ Cardinality(Elems(log)) = Len(log)
           /\ \A n \in Elems(log) : ~heap[n].freed
    /\ first_aoa_event_node = NULL =>
           (next_aoa_event_node = NULL /\ last_aoa_event_node = NULL)

\* C19, the poll: an aoa_poll returns POLLIN | POLLRDNORM exactly when the
\* cursor is not NULL, and 0 otherwise, and changes nothing of the queue
C19_Step ==
    \A t \in Tasks :
        aoa_poll(t) =>
            /\ ret'[t] \in {0, POLLIN_RDNORM}
            /\ (ret'[t] = POLLIN_RDNORM) <=> (next_aoa_event_node # NULL)
            /\ UNCHANGED queueVars
\* C19: C19_Inv holds in every reachable state, whatever push, read, open and
\* poll interleave, and every step of the driver satisfies C19_Step
C19_CursorReachable == []C19_Inv /\ [][C19_Step]_vars

\* a poll has reported readable while the cursor is in the middle of a log of
\* three nodes
C19_Witness ==
    \E t \in Tasks :
        /\ pc[t] = "idle"
        /\ ret[t] = POLLIN_RDNORM
        /\ Len(LogSeq) = 3
        /\ next_aoa_event_node = LogSeq[2]

\* a poll has reported not readable: every record of the log was read
C19_EmptyPoll ==
    \E t \in Tasks :
        /\ pc[t] = "idle"
        /\ ret[t] = 0
        /\ nfiles = 1
        /\ first_aoa_event_node # NULL
        /\ next_aoa_event_node = NULL
        /\ Len(session_reads) = Len(LogSeq)

(* ------------------------------------------------------------------ *)
(* C20                                                                 *)
(* ------------------------------------------------------------------ *)

\* a step of task t that runs a section under aoa_waitqueue.lock: the cursor
\* reset of aoa_open, aoa_read from its spin_lock_irq or from its wake to its
\* return or its sleep, aoa_poll
QueueLockStep(t) ==
    \/ OpenRet(t) /\ ret[t] = 0
    \/ ReadStep(t)
    \/ aoa_poll(t)

\* a step of task t inside the critical section of mode_switch_mutex
MutexStep(t) ==
    \/ SmCheck(t)
    \/ \E st \in {0} \cup ProbeErrors : SmSwitch(t, st)
    \/ SmSet(t)
    \/ SmDone(t)
    \/ RmCheck(t)
    \/ \E st \in {0} \cup ProbeErrors : RmProbe(t, st)
    \/ RmDone(t)

\* C20, the steps: a task that runs a section under the queue lock does not
\* hold the mutex, before or after; a step of the mutex holder is a step of
\* switch_mode or reset_mode, which takes no queue lock and leaves the event
\* list alone; a push, in interrupt context, enqueues or drops its record
\* without touching the mutex or a task.
C20_Step ==
    /\ \A t \in Tasks :
           QueueLockStep(t) =>
               (mode_switch_mutex # t /\ mode_switch_mutex' # t)
    /\ \A t \in Tasks :
           (mode_switch_mutex = t /\ pc'[t] # pc[t]) =>
               (MutexStep(t) /\ UNCHANGED queueVars)
    /\ (Len(heap') # Len(heap) \/ dropped' # dropped) =>
           UNCHANGED <<mode_switch_mutex, taskVars>>

\* C20, no deadlock: the holder of the mutex is inside the critical section
\* and can take its next step, so a task waiting at mutex_lock waits for a
\* task that is not waiting; a task in the wait of read holds no mutex, so no
\* transition waits for a reader, and once it is woken its run needs nothing
\* else.
C20_NoDeadlock ==
    /\ \A t \in Tasks :
           mode_switch_mutex = t => (InCritical(t) /\ ENABLED MutexStep(t))
    /\ \A t \in Tasks :
           InWait(t) =>
               /\ mode_switch_mutex # t
               /\ Woken(t) => ENABLED ReaderRuns(t)
    /\ \A t \in Tasks :
           (pc[t] \in {"sm_lock", "rm_lock"} /\ mode_switch_mutex = NoTask) =>
               ENABLED (SmLock(t) \/ RmLock(t))

\* C20: every step satisfies C20_Step and every state C20_NoDeadlock
C20_LocksNotNested == [][C20_Step]_vars /\ []C20_NoDeadlock

\* a task sleeps in read while another holds the mutex in the middle of a
\* transition and the reader's record is already at the cursor
C20_Witness ==
    \E t, u \in Tasks :
        /\ pc[t] = "read_wait"
        /\ Woken(t)
        /\ pc[u] = "sm_switch"
        /\ mode_switch_mutex = u
        /\ calls[u] = <<"unregister">>
        /\ next_aoa_event_node # NULL

(* ------------------------------------------------------------------ *)
(* C21                                                                 *)
(* ------------------------------------------------------------------ *)

\* C21: whenever no task holds mode_switch_mutex, the transport's registration
\* agrees with current_mode: current_mode is MODE_NONE exactly when nothing is
\* registered, and otherwise the registered personality is current_mode.
C21_RegistrationAgrees ==
    (build = "aoa_ctrl" /\ mode_switch_mutex = NoTask) =>
        registered = current_mode

(* ------------------------------------------------------------------ *)
(* C22                                                                 *)
(* ------------------------------------------------------------------ *)

\* C22: whenever the open flag is false and no aoa_open or aoa_release is in
\* progress, current_mode is MODE_NONE; a personality (ACM or AOA) is current
\* only while the open flag is set, whatever opens, ioctls (switch or reset,
\* with a probe that succeeds or fails) and closes have run.
C22_PersonalityOnlyInSession ==
    build = "aoa_ctrl" =>
        /\ (~aoa_ctrl_open /\ \A t \in Tasks : caller[t] \notin {"open", "release"})
               => current_mode = MODE_NONE
        /\ current_mode # MODE_NONE => aoa_ctrl_open

\* the session is over after one task's switch to AOA had failed in its probe
\* and the other task's close had called the unregister: the flag is false, no
\* call is in progress and current_mode is MODE_NONE
C22_Witness ==
    \E t, u \in Tasks :
        /\ t # u
        /\ pc[t] = "idle" /\ pc[u] = "idle"
        /\ ~aoa_ctrl_open
        /\ nfiles = 0
        /\ current_mode = MODE_NONE
        /\ calls[u] = <<"unregister", "gs_bind_aoa">> /\ ret[u] = -ENODEV
        /\ calls[t] = <<"unregister">> /\ ret[t] = 0

(* ------------------------------------------------------------------ *)
(* C23                                                                 *)
(* ------------------------------------------------------------------ *)

\* the event aoa_set_connected_acm adds for a flag that became v
ConnectedEvent(v) ==
    IF v THEN AOA_EVENT_CONNECTED_ACM ELSE AOA_EVENT_DISCONNECTED_ACM

\* C23, the steps: a call of aoa_set_connected_acm whose argument equals the
\* flag returns with nothing enqueued and nothing pending; a call that changes
\* the flag goes on to add one event, Connected for true and Disconnected for
\* false, and the node its add enqueues is of that type.
C23_Step ==
    /\ \A c \in Callers, new \in BOOLEAN :
           aoa_set_connected_acm(c, new) =>
               /\ aoa_connected_acm' = new
               /\ UNCHANGED <<queueVars, set_nodes>>
               /\ IF aoa_connected_acm = new
                  THEN set_pc'[c] = "idle"
                  ELSE set_pc'[c] = "add" /\ new_connected_acm'[c] = new
    /\ \A c \in Callers :
           (SetConnectedAdd(c) /\ Len(heap') = Len(heap) + 1) =>
               /\ heap'[Len(heap')].type = ConnectedEvent(new_connected_acm[c])
               /\ set_nodes' = Append(set_nodes, Len(heap'))

\* C23, the log: the events aoa_set_connected_acm enqueued alternate between
\* Connected and Disconnected in list order, and when no call is in progress
\* the most recent of them agrees with the flag
C23_Alternate ==
    /\ \A i \in 1..(Len(set_nodes) - 1) :
           heap[set_nodes[i]].type # heap[set_nodes[i + 1]].type
    /\ ((\A c \in Callers : set_pc[c] = "idle") /\ set_nodes # <<>>) =>
           heap[set_nodes[Len(set_nodes)]].type = ConnectedEvent(aoa_connected_acm)

\* C23: every step satisfies C23_Step, and under any interleaving of
\* concurrent callers of aoa_set_connected_acm the Connected and Disconnected
\* events are in the log in the order of the flag changes: C23_Alternate holds
\* in every state.
C23_EventsFollowFlag == [][C23_Step]_vars /\ []C23_Alternate

(* ------------------------------------------------------------------ *)
(* C24                                                                 *)
(* ------------------------------------------------------------------ *)

\* the task is inside the unregister -> register sequence of
\* accessory_mode_store: from its claim of can_change_mode to the return of
\* its usb_composite_register
InSequence(t) == pc[t] \in {"st_unregister", "st_set", "st_register", "st_return"}

\* C24, the steps (sysfs variant): a store enters its sequence only by the
\* xchg that takes can_change_mode from 1 to 0; a store whose xchg finds 0
\* returns -1 with no transport call and with in_accessory_mode, the bound
\* configuration and the other flags as they were; in_accessory_mode is
\* written only inside a sequence, and a sequence has called unregister, then
\* register; can_change_mode becomes 1 only in the step in which gs_bind
\* completes successfully, its configuration added.
C24_Step ==
    /\ \A t \in Tasks :
           (InSequence(t)' /\ ~InSequence(t)) =>
               /\ pc[t] = "st_claim"
               /\ can_change_mode = 1 /\ can_change_mode' = 0
               /\ pc'[t] = "st_unregister"
               /\ calls'[t] = <<>>
    /\ \A t \in Tasks :
           (StClaim(t) /\ can_change_mode = 0) =>
               /\ pc'[t] = "idle"
               /\ ret'[t] = -1
               /\ calls'[t] = <<>>
               /\ UNCHANGED <<in_accessory_mode, can_change_mode, gadget_registered,
                              gserial_initialized, sys_bound>>
    /\ in_accessory_mode' # in_accessory_mode =>
           \E t \in Tasks : pc[t] = "st_set" /\ pc'[t] = "st_register"
    /\ \A t \in Tasks :
           (InSequence(t) /\ ~InSequence(t)') =>
               calls'[t] = <<"unregister", "register">>
    /\ (can_change_mode = 0 /\ can_change_mode' = 1) =>
           /\ sys_bound' = IF in_accessory_mode # 0 THEN "accessory" ELSE "acm"
           /\ \/ module_pc = "init_register" /\ module_pc' = "init_bound"
              \/ \E t \in Tasks :
                     pc[t] = "st_register" /\ pc'[t] = "st_return" /\ ret'[t] = 0

\* C24, the states: at most one task is inside its unregister -> register
\* sequence
C24_OneSequence ==
    \A t, u \in Tasks : (InSequence(t) /\ InSequence(u)) => t = u

\* C24: every step satisfies C24_Step and every state C24_OneSequence
C24_ClaimBeforeSequence == [][C24_Step]_vars /\ []C24_OneSequence

====
